---- MODULE Spec2Model ----
(***************************************************************************)
(* Temporal-spatial analysis engine of the air-quality animation           *)
(* (src/animation/processing.py, src/animation_python/                     *)
(* enhanced_processing.py).                                                *)
(*                                                                         *)
(* Numbers.  Times are integers in ticks of 2.5 minutes, so that the       *)
(* 5-minute rounding of the frame grid is a rounding to a multiple of 2    *)
(* ticks.  Observed values are integers.  The Gaussian weight              *)
(* exp(-0.5*(d/sigma)^2) is tabulated in hundredths, and a weighted        *)
(* average is carried exactly, as the pair <<numerator, denominator>>.     *)
(* Wind components are integers in thousandths, so that the calm threshold *)
(* 0.01 is 10.  Angles are whole degrees: atan2 is rounded down to the     *)
(* degree, and a cosine is an integer in ten-thousandths.                  *)
(* Sensor coordinates are integers; the least-squares plane is solved      *)
(* exactly, its coefficients carried as integers over a common positive    *)
(* denominator, and a magnitude is carried as its square.                  *)
(*                                                                         *)
(* Floating point.  The one place where rounding changes a result that the *)
(* model reads is the sum angle + 360: a float angle is the pair           *)
(* <<whole degrees, sub>>, where sub in {-1, 0, 1} is the sign of a part   *)
(* below half an ulp of 360 (at most 2.8e-14 degrees), which the sum       *)
(* angle + 360 rounds away.  Such an angle comes from atan2(y, x) when y   *)
(* is a rounding residue of a quantity that is zero in exact arithmetic.   *)
(***************************************************************************)
EXTENDS Integers, Sequences, FiniteSets, TLC

VARIABLES
    pc,            \* position of the running call
    times,         \* gaussian_kernel_smooth: argument times
    values,        \* gaussian_kernel_smooth: argument values
    target_times,  \* gaussian_kernel_smooth: argument target_times
    sigma_minutes, \* gaussian_kernel_smooth: argument sigma (in ticks)
    smoothed,      \* gaussian_kernel_smooth: the output array, filled so far
    wind_u,        \* analyze_wind_pollution_relationship: argument, in 1/1000
    wind_v,        \* analyze_wind_pollution_relationship: argument, in 1/1000
    gradient_direction, \* analyze_wind_pollution_relationship: argument, degrees
    relationship,  \* analyze_wind_pollution_relationship: the returned pair
    sensor_lons,   \* calculate_pollution_gradient: argument
    sensor_lats,   \* calculate_pollution_gradient: argument
    pollution_values, \* calculate_pollution_gradient: argument
    lstsq_raises,  \* np.linalg.lstsq raises LinAlgError in this call
    lstsq_residue, \* sign of the rounding error lstsq leaves in grad_lon
    gradient,      \* calculate_pollution_gradient: the returned pair
    df,            \* process_day*: the rows of the dataframe handed in
    columns,       \* process_day*: the columns of the dataframe handed in
    sensor_coords, \* process_day*: the configured sensors, id -> <<lat, lon>>
    frame_interval_minutes,  \* process_day*: argument
    smoothing_sigma_minutes, \* process_day*: argument (in ticks)
    frame_times,   \* process_day*: the frame times built by the call
    frames,        \* process_day*: the returned list of frames
    extent,        \* interpolate_pollution_field: argument
    resolution,    \* interpolate_pollution_field: argument
    rbf_raises,    \* RBFInterpolator raises on a system it could have solved
    rbf_output,    \* what rbf(grid_points) returns when the fit succeeds
    idw_residue,   \* sign of the rounding error of the IDW quotient
    field,         \* interpolate_pollution_field: the returned field
    field_path,    \* which branch of the try statement produced the field
    directions,    \* circular_mean, smooth_wind_direction: argument
    mean_weights,  \* circular_mean: argument weights
    sum_residue,   \* sign of the rounding error left in sin_sum
    mean_deg,      \* circular_mean: the returned angle
    window,        \* calculate_trend: argument
    polyfit_residue, \* sign of the rounding error of the slope np.polyfit returns
    trends,        \* calculate_trend: the returned array
    upwindness,    \* determine_upwind_sensor: the returned array
    processed_data, \* process_data: the returned ProcessedData
    error,         \* the exception a call raised, "" when it returned
    average_residue, \* sign of the rounding error of the quotient of np.average
    smoothed_again, \* the array returned by a second call of a resampler
    sensor_data,   \* process_day_enhanced: the arrays of each sensor, being filled
    done,          \* the loop passes that have been evaluated
    in_order,      \* no pass has run before a pass whose output it reads
    heap,          \* the objects of a stepwise call: tables and lists, by identity
    local_df,      \* process_day*: the object the local name df is bound to
    frame_index,   \* process_day*: the index i of the frame loop, from 1
    frames_per_date, \* day loop: len(frames) of every date of dates
    date_index,    \* day loop: the position of date in dates, from 1
    frame_count,   \* day loop: the number of the next frame file
    start_frame,   \* day loop, render_all_frames: the number of the first file
    day_stats,     \* day loop: day_stats (day_info), one entry per rendered day
    files,         \* the frame files: number |-> frames written to it, writes
    tasks,         \* render_all_frames: the indices no thread has taken yet
    workers,       \* render_all_frames: where each thread of the pool is
    completed      \* render_all_frames: completed[0]

smooth_vars == <<times, values, target_times, sigma_minutes, smoothed>>
wind_vars == <<wind_u, wind_v, gradient_direction, relationship>>
grad_vars == <<sensor_lons, sensor_lats, pollution_values, lstsq_raises,
               lstsq_residue, gradient>>
day_vars == <<df, columns, sensor_coords, frame_interval_minutes,
              smoothing_sigma_minutes, frame_times, frames>>
field_vars == <<extent, resolution, rbf_raises, rbf_output, idw_residue, field,
                field_path>>
circ_vars == <<directions, mean_weights, sum_residue, mean_deg>>
trend_vars == <<window, polyfit_residue, trends>>
upwind_vars == <<upwindness>>
data_vars == <<processed_data, error>>
resample_vars == <<average_residue, smoothed_again>>
pass_vars == <<sensor_data, done, in_order>>
heap_vars == <<heap, local_df, frame_index>>
render_vars == <<frames_per_date, date_index, frame_count, start_frame,
                 day_stats, files, tasks, workers, completed>>
vars == <<pc, smooth_vars, wind_vars, grad_vars, day_vars, field_vars, circ_vars,
          trend_vars, upwind_vars, data_vars, resample_vars, pass_vars,
          heap_vars, render_vars>>

(***************************************************************************)
(* Bounds of the checked instances.                                        *)
(***************************************************************************)
MaxObs == 2        \* observations in one series
MaxTime == 5       \* latest tick of an observation or a target
MaxTargets == 2    \* target times of one call

ValueSet == {1, 5}
SigmaSet == {1, 2}

(***************************************************************************)
(* Arithmetic helpers.                                                     *)
(***************************************************************************)
Abs(x) == IF x < 0 THEN -x ELSE x

\* Op applied to the value of v
Bind(v, Op(_)) == CHOOSE r \in {Op(x) : x \in {v}} : TRUE

RECURSIVE SumSet(_, _)
SumSet(f, S) ==
    IF S = {} THEN 0
    ELSE LET j == CHOOSE k \in S : TRUE IN f[j] + SumSet(f, S \ {j})

\* p and q are fractions <<numerator, denominator>> with positive denominators
RatEq(p, q) == p[1] * q[2] = q[1] * p[2]
RatLe(p, q) == p[1] * q[2] <= q[1] * p[2]

SeqsUpTo(S, lo, hi) == UNION {[1..n -> S] : n \in lo..hi}

Increasing(s) == \A j \in 1..(Len(s) - 1) : s[j] < s[j + 1]

(***************************************************************************)
(* Trigonometry on whole degrees.                                          *)
(***************************************************************************)
\* 10000 * cos(k degrees), k = 0..90
CosTable ==
    <<10000, 9998, 9994, 9986, 9976, 9962, 9945, 9925, 9903, 9877,
      9848, 9816, 9781, 9744, 9703, 9659, 9613, 9563, 9511, 9455,
      9397, 9336, 9272, 9205, 9135, 9063, 8988, 8910, 8829, 8746,
      8660, 8572, 8480, 8387, 8290, 8192, 8090, 7986, 7880, 7771,
      7660, 7547, 7431, 7314, 7193, 7071, 6947, 6820, 6691, 6561,
      6428, 6293, 6157, 6018, 5878, 5736, 5592, 5446, 5299, 5150,
      5000, 4848, 4695, 4540, 4384, 4226, 4067, 3907, 3746, 3584,
      3420, 3256, 3090, 2924, 2756, 2588, 2419, 2250, 2079, 1908,
      1736, 1564, 1392, 1219, 1045, 872, 698, 523, 349, 175,
      0>>

\* math.cos(math.radians(d)), in ten-thousandths
math_cos(d) ==
    LET r == d % 360 IN
    IF r <= 90 THEN CosTable[r + 1]
    ELSE IF r <= 180 THEN -CosTable[180 - r + 1]
    ELSE IF r <= 270 THEN -CosTable[r - 180 + 1]
    ELSE CosTable[360 - r + 1]

math_sin(d) == math_cos(d - 90)

\* the direction (y, x) is at or counter-clockwise past the angle of k
\* degrees: y * cos(k) - x * sin(k) >= 0, computed in two parts to stay
\* within 32 bits
AtOrPast(y, x, k) ==
    LET hi == (y \div 1000) * math_cos(k) - (x \div 1000) * math_sin(k)
        lo == (y % 1000) * math_cos(k) - (x % 1000) * math_sin(k)
    IN hi >= -(lo \div 1000)

\* math.degrees(math.atan2(y, x)) rounded down to the degree, in -180..180
math_atan2(y, x) ==
    IF y = 0 /\ x = 0 THEN 0
    ELSE IF y = 0 /\ x < 0 THEN 180
    ELSE LET lo == IF y >= 0 THEN (IF x > 0 THEN 0 ELSE 90)
                   ELSE (IF x < 0 THEN -180 ELSE -90)
         IN CHOOSE k \in lo..(lo + 89) : AtOrPast(y, x, k) /\ ~AtOrPast(y, x, k + 1)

(***************************************************************************)
(* gaussian_kernel_smooth                                                  *)
(***************************************************************************)
\* 100 * exp(-0.5 * x^2) at x = d / sg, rounded; 0 from x = 4 on
KernelTable(sg) ==
    CASE sg = 1 -> <<100, 61, 14, 1>>
      [] sg = 2 -> <<100, 88, 61, 32, 14, 4, 1, 0>>

np_exp_kernel(d, sg) ==
    IF d + 1 <= Len(KernelTable(sg)) THEN KernelTable(sg)[d + 1] ELSE 0

time_diffs(ts, t) == [j \in DOMAIN ts |-> Abs(ts[j] - t)]

weights(ts, t, sg) == [j \in DOMAIN ts |-> np_exp_kernel(time_diffs(ts, t)[j], sg)]

mask_le(ts, t, sg) == {j \in DOMAIN ts : time_diffs(ts, t)[j] <= 3 * sg}

mask(ts, t, sg) == {j \in DOMAIN ts : time_diffs(ts, t)[j] < 3 * sg}

\* the weighted sum, not divided by the sum of the weights
np_average_not_normalised(vs, ws, m) ==
    <<SumSet([j \in m |-> ws[j] * vs[j]], m), 1>>

\* np.average(values[mask], weights=weights[mask])
np_average(vs, ws, m) ==
    <<SumSet([j \in m |-> ws[j] * vs[j]], m), SumSet([j \in m |-> ws[j]], m)>>

np_argmin_last_index(d) == Len(d)

\* np.argmin: the first index of the least element
np_argmin(d) ==
    CHOOSE j \in DOMAIN d :
        /\ \A k \in DOMAIN d : d[j] <= d[k]
        /\ \A k \in DOMAIN d : k < j => d[k] > d[j]

\* one pass of the loop body for target time t
smooth_at(ts, vs, t, sg) ==
    IF Cardinality(mask(ts, t, sg)) > 0
    THEN np_average(vs, weights(ts, t, sg), mask(ts, t, sg))
    ELSE <<vs[np_argmin(time_diffs(ts, t))], 1>>

\* the whole call: one value for each target time
gaussian_kernel_smooth(ts, vs, tt, sg) ==
    [k \in DOMAIN tt |-> smooth_at(ts, vs, tt[k], sg)]

SmoothIdle ==
    /\ times = <<>>
    /\ values = <<>>
    /\ target_times = <<>>
    /\ sigma_minutes = 0
    /\ smoothed = <<>>

WindIdle ==
    /\ wind_u = 0
    /\ wind_v = 0
    /\ gradient_direction = 0
    /\ relationship = <<>>

GradIdle ==
    /\ sensor_lons = <<>>
    /\ sensor_lats = <<>>
    /\ pollution_values = <<>>
    /\ lstsq_raises = FALSE
    /\ lstsq_residue = 0
    /\ gradient = <<>>

DayIdle ==
    /\ df = <<>>
    /\ columns = {}
    /\ sensor_coords = <<>>
    /\ frame_interval_minutes = 0
    /\ smoothing_sigma_minutes = 0
    /\ frame_times = <<>>
    /\ frames = <<>>

FieldIdle ==
    /\ extent = <<>>
    /\ resolution = 0
    /\ rbf_raises = FALSE
    /\ rbf_output = <<>>
    /\ idw_residue = 0
    /\ field = <<>>
    /\ field_path = ""

CircIdle ==
    /\ directions = <<>>
    /\ mean_weights = <<>>
    /\ sum_residue = 0
    /\ mean_deg = <<>>

TrendIdle ==
    /\ window = 0
    /\ polyfit_residue = 0
    /\ trends = <<>>

UpwindIdle == upwindness = <<>>

DataIdle ==
    /\ processed_data = <<>>
    /\ error = ""

ResampleIdle ==
    /\ average_residue = 0
    /\ smoothed_again = <<>>

PassIdle ==
    /\ sensor_data = <<>>
    /\ done = {}
    /\ in_order = TRUE

HeapIdle ==
    /\ heap = <<>>
    /\ local_df = 0
    /\ frame_index = 0

RenderIdle ==
    /\ frames_per_date = <<>>
    /\ date_index = 0
    /\ frame_count = 0
    /\ start_frame = 0
    /\ day_stats = <<>>
    /\ files = <<>>
    /\ tasks = <<>>
    /\ workers = <<>>
    /\ completed = 0

SmoothInit ==
    /\ pc = "smooth"
    /\ WindIdle
    /\ GradIdle
    /\ DayIdle
    /\ FieldIdle
    /\ CircIdle
    /\ TrendIdle
    /\ UpwindIdle
    /\ DataIdle
    /\ ResampleIdle
    /\ PassIdle
    /\ HeapIdle
    /\ RenderIdle
    /\ \E n \in 1..MaxObs :
          /\ times \in [1..n -> 0..MaxTime]
          /\ values \in [1..n -> ValueSet]
    /\ target_times \in {s \in SeqsUpTo(0..MaxTime, 0, MaxTargets) : Increasing(s)}
    /\ sigma_minutes \in SigmaSet
    /\ smoothed = <<>>

\* loop body, branch mask.sum() > 0
SmoothAverage ==
    /\ pc = "smooth"
    /\ Len(smoothed) < Len(target_times)
    /\ LET t == target_times[Len(smoothed) + 1] IN
          /\ Cardinality(mask(times, t, sigma_minutes)) > 0
          /\ smoothed' = Append(smoothed, smooth_at(times, values, t, sigma_minutes))
    /\ UNCHANGED <<pc, times, values, target_times, sigma_minutes, wind_vars,
                   grad_vars, day_vars, field_vars,
                   circ_vars, trend_vars, upwind_vars, data_vars, resample_vars, pass_vars, heap_vars, render_vars>>

\* loop body, branch nearest value
SmoothNearest ==
    /\ pc = "smooth"
    /\ Len(smoothed) < Len(target_times)
    /\ LET t == target_times[Len(smoothed) + 1] IN
          /\ Cardinality(mask(times, t, sigma_minutes)) = 0
          /\ smoothed' = Append(smoothed, smooth_at(times, values, t, sigma_minutes))
    /\ UNCHANGED <<pc, times, values, target_times, sigma_minutes, wind_vars,
                   grad_vars, day_vars, field_vars,
                   circ_vars, trend_vars, upwind_vars, data_vars, resample_vars, pass_vars, heap_vars, render_vars>>

\* return smoothed
SmoothReturn ==
    /\ pc = "smooth"
    /\ Len(smoothed) = Len(target_times)
    /\ pc' = "smooth_done"
    /\ UNCHANGED <<smooth_vars, wind_vars, grad_vars, day_vars, field_vars,
                   circ_vars, trend_vars, upwind_vars, data_vars, resample_vars, pass_vars, heap_vars, render_vars>>

SmoothNext == SmoothAverage \/ SmoothNearest \/ SmoothReturn

SpecSmooth == SmoothInit /\ [][SmoothNext]_vars

(***************************************************************************)
(* analyze_wind_pollution_relationship                                     *)
(***************************************************************************)
WindSet == {-1000, -10, -5, 0, 5, 10, 1000}
GradientDirectionSet == {15 * k : k \in 0..24}

is_calm(u, v) == Abs(u) < 10 /\ Abs(v) < 10

\* wind_dir_deg: where the wind is going to, 0 = north, 90 = east
wind_dir_deg_math_convention(u, v) ==
    LET d == math_atan2(v, u) IN IF d < 0 THEN d + 360 ELSE d

wind_dir_deg(u, v) ==
    LET d == math_atan2(u, v) IN IF d < 0 THEN d + 360 ELSE d

indicator_inclusive(alignment) ==
    IF alignment >= 5000 THEN "accumulating"
    ELSE IF alignment <= -5000 THEN "dispersing"
    ELSE "mixing"

indicator(alignment) ==
    IF alignment > 5000 THEN "accumulating"
    ELSE IF alignment < -5000 THEN "dispersing"
    ELSE "mixing"

\* the alignment and the indicator without the test for calm
analyze_without_calm(u, v, g) ==
    LET alignment == math_cos(g - wind_dir_deg(u, v))
    IN <<alignment, indicator(alignment)>>

\* returns <<alignment in ten-thousandths, transport indicator>>
analyze_wind_pollution_relationship(u, v, g) ==
    IF is_calm(u, v) THEN <<0, "calm">>
    ELSE LET alignment == math_cos(g - wind_dir_deg(u, v))
         IN <<alignment, indicator(alignment)>>

WindInit ==
    /\ pc = "analyze"
    /\ SmoothIdle
    /\ GradIdle
    /\ DayIdle
    /\ FieldIdle
    /\ CircIdle
    /\ TrendIdle
    /\ UpwindIdle
    /\ DataIdle
    /\ ResampleIdle
    /\ PassIdle
    /\ HeapIdle
    /\ RenderIdle
    /\ wind_u \in WindSet
    /\ wind_v \in WindSet
    /\ gradient_direction \in GradientDirectionSet
    /\ relationship = <<>>

Analyze ==
    /\ pc = "analyze"
    /\ relationship' =
          analyze_wind_pollution_relationship(wind_u, wind_v, gradient_direction)
    /\ pc' = "analyze_done"
    /\ UNCHANGED <<smooth_vars, wind_u, wind_v, gradient_direction, grad_vars,
                   day_vars, field_vars,
                   circ_vars, trend_vars, upwind_vars, data_vars, resample_vars, pass_vars, heap_vars, render_vars>>

WindNext == Analyze

SpecWind == WindInit /\ [][WindNext]_vars

(***************************************************************************)
(* calculate_pollution_gradient                                            *)
(***************************************************************************)
MaxSensors == 3    \* sensors in one snapshot

CoordSet == {0, 1}
PollutionSet == {-1, 0, 1, 2}

SumSeq(f) == SumSet(f, DOMAIN f)

\* A^T A and A^T y of A = column_stack([lons, lats, ones])
NormalMatrix(lons, lats) ==
    LET n == Len(lons)
        sxx == SumSeq([j \in 1..n |-> lons[j] * lons[j]])
        sxy == SumSeq([j \in 1..n |-> lons[j] * lats[j]])
        syy == SumSeq([j \in 1..n |-> lats[j] * lats[j]])
        sx == SumSeq([j \in 1..n |-> lons[j]])
        sy == SumSeq([j \in 1..n |-> lats[j]])
    IN <<<<sxx, sxy, sx>>, <<sxy, syy, sy>>, <<sx, sy, n>>>>

NormalVector(lons, lats, vals) ==
    LET n == Len(lons)
    IN <<SumSeq([j \in 1..n |-> lons[j] * vals[j]]),
         SumSeq([j \in 1..n |-> lats[j] * vals[j]]),
         SumSeq([j \in 1..n |-> vals[j]])>>

Det3(c1, c2, c3) ==
      c1[1] * (c2[2] * c3[3] - c3[2] * c2[3])
    - c2[1] * (c1[2] * c3[3] - c3[2] * c1[3])
    + c3[1] * (c1[2] * c2[3] - c2[2] * c1[3])

\* sum of the principal 2 x 2 minors of the symmetric matrix m
Minors2(m) ==
      (m[1][1] * m[2][2] - m[1][2] * m[1][2])
    + (m[1][1] * m[3][3] - m[1][3] * m[1][3])
    + (m[2][2] * m[3][3] - m[2][3] * m[2][3])

Trace3(m) == m[1][1] + m[2][2] + m[3][3]

MatVec(m, r) == [i \in 1..3 |-> m[i][1] * r[1] + m[i][2] * r[2] + m[i][3] * r[3]]

\* np.linalg.lstsq(A, y, rcond=None): the least-squares solution of least
\* norm, x = pinv(A^T A) A^T y.  Returns <<coeffs[0], coeffs[1]>> as
\* <<numerator, numerator, common positive denominator>>.  With M = A^T A
\* and r = A^T y in the range of M: rank 3, Cramer's rule; rank 2,
\* x = (trace(M) r - M r) / (sum of 2 x 2 principal minors); rank 1,
\* x = r / trace(M).
np_linalg_lstsq(lons, lats, vals) ==
    LET m == NormalMatrix(lons, lats)
        r == NormalVector(lons, lats, vals)
        det == Det3(m[1], m[2], m[3])
        e2 == Minors2(m)
        tr == Trace3(m)
        mr == MatVec(m, r)
    IN  IF det # 0
        THEN <<Det3(r, m[2], m[3]), Det3(m[1], r, m[3]), det>>
        ELSE IF e2 # 0
        THEN <<tr * r[1] - mr[1], tr * r[2] - mr[2], e2>>
        ELSE <<r[1], r[2], tr>>

\* the sign of the rounding error in coeffs[0]: a coefficient that is zero
\* in exact arithmetic comes out of the solver as zero or as a residue of
\* either sign, unless its column of A is all zero
lstsq_rounding(lons, residue) ==
    IF \E j \in DOMAIN lons : lons[j] # 0 THEN residue ELSE 0

\* math.degrees(math.atan2(y, x)) of floats: y carries the rounding
\* residue ry when it is zero in exact arithmetic
float_atan2(y, ry, x) ==
    IF y = 0 /\ x > 0 THEN <<0, ry>> ELSE <<math_atan2(y, x), 0>>

float_lt_zero(a) == a[1] < 0 \/ (a[1] = 0 /\ a[2] < 0)

\* a + n in floating point, n a whole number of degrees: the part of a
\* below half an ulp survives only when the sum is next to zero
float_add(a, n) == <<a[1] + n, IF a[1] + n = 0 THEN a[2] ELSE 0>>

direction_deg_math_convention(grad_lon, grad_lat, residue) ==
    LET d == float_atan2(grad_lat, residue, grad_lon)
    IN IF float_lt_zero(d) THEN float_add(d, 360) ELSE d

\* direction_deg: compass direction of (grad_lon, grad_lat), made non-negative
direction_deg(grad_lon, grad_lat, residue) ==
    LET d == float_atan2(grad_lon, residue, grad_lat)
    IN IF float_lt_zero(d) THEN float_add(d, 360) ELSE d

\* return 0.0, 0.0
ZeroGradient == <<<<0, 0>>, <<0, 1>>>>

\* returns <<direction as a float angle, magnitude^2 as a fraction>>.
\* magnitude < 1e-10: over the integer inputs of the model a non-zero
\* exact gradient is far above 1e-10, and a gradient that is zero in exact
\* arithmetic has a magnitude of rounding size, below 1e-10.
calculate_pollution_gradient(lons, lats, vals, raises, residue) ==
    IF Len(lons) < 2 THEN ZeroGradient
    ELSE IF raises THEN ZeroGradient
    ELSE LET coeffs == np_linalg_lstsq(lons, lats, vals)
             grad_lon == coeffs[1]
             grad_lat == coeffs[2]
         IN  IF grad_lon = 0 /\ grad_lat = 0 THEN ZeroGradient
             ELSE <<direction_deg(grad_lon, grad_lat, lstsq_rounding(lons, residue)),
                    <<grad_lon * grad_lon + grad_lat * grad_lat,
                      coeffs[3] * coeffs[3]>>>>

GradInit ==
    /\ pc = "gradient"
    /\ SmoothIdle
    /\ WindIdle
    /\ DayIdle
    /\ FieldIdle
    /\ CircIdle
    /\ TrendIdle
    /\ UpwindIdle
    /\ DataIdle
    /\ ResampleIdle
    /\ PassIdle
    /\ HeapIdle
    /\ RenderIdle
    /\ \E n \in 0..MaxSensors :
          /\ sensor_lons \in [1..n -> CoordSet]
          /\ sensor_lats \in [1..n -> CoordSet]
          /\ pollution_values \in [1..n -> PollutionSet]
    /\ \E c \in {<<FALSE, -1>>, <<FALSE, 0>>, <<FALSE, 1>>, <<TRUE, 0>>} :
          /\ lstsq_raises = c[1]
          /\ lstsq_residue = c[2]
    /\ gradient = <<>>

Gradient ==
    /\ pc = "gradient"
    /\ gradient' = calculate_pollution_gradient(sensor_lons, sensor_lats,
                        pollution_values, lstsq_raises, lstsq_residue)
    /\ pc' = "gradient_done"
    /\ UNCHANGED <<smooth_vars, wind_vars, sensor_lons, sensor_lats,
                   pollution_values, lstsq_raises, lstsq_residue, day_vars, field_vars,
                   circ_vars, trend_vars, upwind_vars, data_vars, resample_vars, pass_vars, heap_vars, render_vars>>

GradNext == Gradient

SpecGradient == GradInit /\ [][GradNext]_vars

(***************************************************************************)
(* process_day and process_day_enhanced                                    *)
(*                                                                         *)
(* A dataframe is the sequence of its rows, in file order.  A row carries  *)
(* the sensor id, the timestamp in ticks counted from midnight of the      *)
(* target date, the pollution reading with its NaN flag, and the wind      *)
(* columns (components and speed in thousandths, direction in degrees)     *)
(* with one NaN flag for all of them.  A smoothed series is carried in     *)
(* whole units: the weighted average <<numerator, denominator>> is rounded *)
(* down, which is exact where the smoothed readings are equal.  The fit    *)
(* of the gradient is taken as exact in a frame (no residue).  The         *)
(* interpolated field and the text labels of a frame are left out.         *)
(***************************************************************************)
MaxRows == 3       \* rows of one sensor in the dataframe

FiveMin == 2                  \* the rounding unit '5min', in ticks
wind_speed_max == 4000        \* SiteConfig.wind_speed_max, in thousandths
TicksPerDay == (24 * 60 * 2) \div 5
Ticks(minutes) == (minutes * 2) \div 5

SensorIds == {"A", "B"}
PollutionColumn == "cpc_particle_number_conc_corr.x"
AllColumns == {"timestamp", "sn.x", PollutionColumn, "met_wx_u", "met_wx_v",
               "met_wx_ws", "met_wx_wd"}
ColumnSets == {AllColumns, AllColumns \ {PollutionColumn}}
FrameIntervalSet == {5, 10}
WindPatterns == {"none", "calm", "north", "gust"}
PollutionPatterns == {"flat", "rising", "spike", "nan", "nextday"}

\* sensor id -> <<lat, lon>>; a sensor missing here has no coordinates
SensorCoordsSet ==
    { [s \in SensorIds |-> IF s = "A" THEN <<0, 0>> ELSE <<1, 1>>],
      [s \in SensorIds |-> <<1, 1>>],
      [s \in {"A"} |-> <<0, 0>>] }

NorthWind == [u |-> 0, v |-> 1000, ws |-> 1000, wd |-> 180, isna |-> FALSE]

\* the wind columns of the j-th row of a sensor
WindOfRow(w, j) ==
    CASE w = "none" -> [u |-> 0, v |-> 0, ws |-> 0, wd |-> 0, isna |-> TRUE]
      [] w = "calm" -> [u |-> 0, v |-> 0, ws |-> 0, wd |-> 0, isna |-> FALSE]
      [] w = "north" -> NorthWind
      [] w = "gust" -> IF j = 1
                       THEN [u |-> 0, v |-> 6000, ws |-> 6000, wd |-> 180,
                             isna |-> FALSE]
                       ELSE NorthWind

\* n rows of sensor s from tick t0 on, one every step ticks
RowsOf(s, n, t0, step, level, pat, w) ==
    [j \in 1..n |->
        [sensor_id |-> s,
         timestamp |-> t0 + (j - 1) * step
                       + (IF pat = "nextday" /\ j = n THEN TicksPerDay ELSE 0),
         pollution |-> CASE pat = "rising" -> level + j - 1
                         [] pat = "spike" -> IF j = n THEN 60 * level ELSE level
                         [] OTHER -> level,
         pollution_isna |-> (pat = "nan" /\ j = 1),
         wind |-> WindOfRow(w, j)]]

timestamps(d) == [j \in DOMAIN d |-> d[j].timestamp]
pollutions(d) == [j \in DOMAIN d |-> d[j].pollution]

\* df[mask]: the rows whose index is in K, in order
boolean_index(d, K) ==
    [k \in 1..Cardinality(K) |->
        d[CHOOSE j \in K : Cardinality({i \in K : i <= j}) = k]]

\* df[df['timestamp'].dt.date == target]
on_target_date(d) == SelectSeq(d, LAMBDA r : r.timestamp \div TicksPerDay = 0)

\* df.dropna(subset=['pollution', 'lat', 'lon', 'sensor_id'])
dropna(d, coords) ==
    SelectSeq(d, LAMBDA r : ~r.pollution_isna /\ r.sensor_id \in DOMAIN coords)

\* the k-th smallest value of the function f, k from 1
kth_smallest(f, k) ==
    CHOOSE v \in {f[j] : j \in DOMAIN f} :
        /\ Cardinality({j \in DOMAIN f : f[j] < v}) < k
        /\ k <= Cardinality({j \in DOMAIN f : f[j] <= v})

\* pollution <= df['pollution'].quantile(0.99), linear interpolation
\* between the order statistics around position 0.99 * (N - 1)
le_p99(p, s) ==
    LET N == Len(s)
        lo == (99 * (N - 1)) \div 100
        fr == (99 * (N - 1)) % 100
        a == kth_smallest(s, lo + 1)
        b == kth_smallest(s, IF lo + 2 <= N THEN lo + 2 ELSE N)
    IN 100 * p <= 100 * a + fr * (b - a)

\* twice x.rolling(window=5, min_periods=1, center=True).median() at row j
\* of the dataframe, x the pollution of the rows of the same sensor
rolling_median_doubled(d, j) ==
    LET group == {k \in DOMAIN d : d[k].sensor_id = d[j].sensor_id}
        rank(k) == Cardinality({i \in group : i <= k})
        rolling == {k \in group : Abs(rank(k) - rank(j)) <= 2}
        x == [k \in rolling |-> d[k].pollution]
        m == Cardinality(rolling)
    IN kth_smallest(x, (m + 1) \div 2) + kth_smallest(x, (m + 2) \div 2)

\* (pollution / rolling_median.clip(lower=1)) <= 50
spike_mask(d, j) ==
    LET med2 == rolling_median_doubled(d, j)
    IN 2 * d[j].pollution <= 50 * (IF med2 < 2 THEN 2 ELSE med2)

\* df[(df['pollution'] <= p99) & spike_mask]
filter_outliers(d) ==
    Bind({j \in DOMAIN d : /\ le_p99(d[j].pollution, pollutions(d))
                           /\ spike_mask(d, j)},
         LAMBDA K : boolean_index(d, K))

\* df[df['wind_speed'].isna() | (df['wind_speed'] <= wind_cap)]
filter_wind(d) ==
    SelectSeq(d, LAMBDA r : \/ r.wind.isna
                            \/ r.wind.ws <= (wind_speed_max * 125) \div 100)

\* Timestamp.ceil and Timestamp.floor to a multiple of f ticks
Timestamp_ceil(t, f) == ((t + f - 1) \div f) * f
Timestamp_floor(t, f) == (t \div f) * f

pd_date_range_from_start(start, end, freq) ==
    IF start > end THEN <<start>>
    ELSE [k \in 1..((end - start) \div freq + 1) |-> start + (k - 1) * freq]

\* pd.date_range(start, end, freq): empty when start is after end
pd_date_range(start, end, freq) ==
    IF start > end THEN <<>>
    ELSE [k \in 1..((end - start) \div freq + 1) |-> start + (k - 1) * freq]

time_min(d) ==
    CHOOSE t \in {d[j].timestamp : j \in DOMAIN d} :
        \A j \in DOMAIN d : t <= d[j].timestamp

time_max(d) ==
    CHOOSE t \in {d[j].timestamp : j \in DOMAIN d} :
        \A j \in DOMAIN d : t >= d[j].timestamp

\* the frame times: rounded to '5min', stepped by int(frame_interval_minutes)
make_frame_times(d, interval) ==
    Bind(<<Timestamp_ceil(time_min(d), FiveMin),
           Timestamp_floor(time_max(d), FiveMin)>>,
         LAMBDA range : pd_date_range(range[1], range[2], Ticks(interval)))

\* df['sensor_id'].unique(): the ids in order of first appearance
pd_unique(s) ==
    Bind({j \in DOMAIN s : \A k \in 1..(j - 1) : s[k] # s[j]},
         LAMBDA K : boolean_index(s, K))

\* sort_values('timestamp'), rows of equal timestamp kept in order
sort_values(d) ==
    [p \in DOMAIN d |->
        d[CHOOSE j \in DOMAIN d :
            Cardinality({k \in DOMAIN d : d[k].timestamp < d[j].timestamp})
            + Cardinality({k \in 1..j : d[k].timestamp = d[j].timestamp}) = p]]

\* df[df['sensor_id'] == sensor].sort_values('timestamp')
sensor_rows(d, s) ==
    Bind(SelectSeq(d, LAMBDA r : r.sensor_id = s), LAMBDA x : sort_values(x))

eligible_two(sensor_df) == ~(Len(sensor_df) < 2)

\* not (len(sensor_df) < 3)
eligible(sensor_df) == ~(Len(sensor_df) < 3)

\* the sensors that get an entry of sensor_data, in order
eligible_sensors(d) ==
    Bind(pd_unique([j \in DOMAIN d |-> d[j].sensor_id]),
         LAMBDA ids : SelectSeq(ids, LAMBDA s : eligible(sensor_rows(d, s))))

\* each weighted average <<numerator, denominator>> rounded down
whole_units(s) == [k \in DOMAIN s |-> s[k][1] \div s[k][2]]

\* gaussian_kernel_smooth, each value carried in whole units
smooth_whole(ts, vs, tt, sg) ==
    Bind(gaussian_kernel_smooth(ts, vs, tt, sg), LAMBDA s : whole_units(s))

zeros(n) == [k \in 1..n |-> 0]

\* the rounding error of the least-squares solution: none when every
\* value is 0.0
polyfit_rounding(y, residue) ==
    IF \A j \in DOMAIN y : y[j] = 0 THEN 0 ELSE residue

polyfit_endpoint_slope(y, residue) ==
    <<y[Len(y)] - y[1], Len(y), polyfit_rounding(y, residue)>>

\* np.polyfit(x, y, 1)[0] for x = 0, 1, ..., len(y) - 1: the fraction
\* <<numerator, denominator>> and the sign of its rounding error
polyfit_slope(y, residue) ==
    LET m == Len(y)
        sx == SumSeq([j \in 1..m |-> j - 1])
        sxx == SumSeq([j \in 1..m |-> (j - 1) * (j - 1)])
        sy == SumSeq(y)
        sxy == SumSeq([j \in 1..m |-> (j - 1) * y[j]])
    IN <<m * sxy - sx * sy, m * sxx - sx * sx, polyfit_rounding(y, residue)>>

\* an entry of np.zeros
NoTrend == <<0, 1, 0>>

calculate_trend_unguarded(vals, w, residue) ==
    [i \in DOMAIN vals |->
        LET half_window == w \div 2
            start == IF i - half_window > 1 THEN i - half_window ELSE 1
            end == IF i + half_window < Len(vals) THEN i + half_window
                   ELSE Len(vals)
        IN IF end - start + 1 >= 2
           THEN Bind(SubSeq(vals, start, end), LAMBDA y : polyfit_slope(y, residue))
           ELSE NoTrend]

\* calculate_trend: one slope for each value; start and end are the first
\* and the last index of values[start:end], counted from 1
calculate_trend(vals, w, residue) ==
    IF Len(vals) < 3 THEN [i \in DOMAIN vals |-> NoTrend]
    ELSE [i \in DOMAIN vals |->
            LET half_window == w \div 2
                start == IF i - half_window > 1 THEN i - half_window ELSE 1
                end == IF i + half_window < Len(vals) THEN i + half_window
                       ELSE Len(vals)
            IN IF end - start + 1 >= 2
               THEN Bind(SubSeq(vals, start, end),
                         LAMBDA y : polyfit_slope(y, residue))
               ELSE NoTrend]

\* the projections divided without the negation
upwindness_not_negated(p) ==
    LET pmax == CHOOSE x \in {p[j] : j \in DOMAIN p} : \A j \in DOMAIN p : x >= p[j]
        pmin == CHOOSE x \in {p[j] : j \in DOMAIN p} : \A j \in DOMAIN p : x <= p[j]
    IN IF pmax - pmin > 0
       THEN [j \in DOMAIN p |->
               <<p[j], IF Abs(pmax) > Abs(pmin) THEN Abs(pmax) ELSE Abs(pmin)>>]
       ELSE [j \in DOMAIN p |-> <<0, 1>>]

\* the division without the test of the spread
upwindness_unguarded(p) ==
    LET pmax == CHOOSE x \in {p[j] : j \in DOMAIN p} : \A j \in DOMAIN p : x >= p[j]
        pmin == CHOOSE x \in {p[j] : j \in DOMAIN p} : \A j \in DOMAIN p : x <= p[j]
    IN [j \in DOMAIN p |->
           <<-p[j], IF Abs(pmax) > Abs(pmin) THEN Abs(pmax) ELSE Abs(pmin)>>]

\* the scores of determine_upwind_sensor from the projections p, which are
\* scaled by the number of sensors and by the wind speed
upwindness_of(p) ==
    LET pmax == CHOOSE x \in {p[j] : j \in DOMAIN p} : \A j \in DOMAIN p : x >= p[j]
        pmin == CHOOSE x \in {p[j] : j \in DOMAIN p} : \A j \in DOMAIN p : x <= p[j]
    IN IF pmax - pmin > 0
       THEN [j \in DOMAIN p |->
               <<-p[j], IF Abs(pmax) > Abs(pmin) THEN Abs(pmax) ELSE Abs(pmin)>>]
       ELSE [j \in DOMAIN p |-> <<0, 1>>]

\* determine_upwind_sensor: one score, as a fraction, for each sensor.
\* Scaling the projections by the number of sensors and by the wind speed
\* leaves their ratios and the sign of their differences as they are.
determine_upwind_sensor(lons, lats, u, v) ==
    IF Abs(u) < 10 /\ Abs(v) < 10 THEN [j \in DOMAIN lons |-> <<0, 1>>]
    ELSE Bind([j \in DOMAIN lons |->
                   (Len(lons) * lons[j] - SumSeq(lons)) * u
                 + (Len(lons) * lats[j] - SumSeq(lats)) * v],
              LAMBDA projections : upwindness_of(projections))

RECURSIVE GCD(_, _)
GCD(a, b) == IF b = 0 THEN a ELSE GCD(b, a % b)

\* np.degrees(np.arctan2(y, x)), rounded down to the degree
np_arctan2(y, x) ==
    IF y = 0 /\ x = 0 THEN 0
    ELSE Bind(GCD(Abs(y), Abs(x)), LAMBDA g : math_atan2(y \div g, x \div g))

\* np.degrees(np.arctan2(y, x)) as a float angle: y carries the rounding
\* residue ry when it is zero in exact arithmetic
np_degrees_arctan2(y, ry, x) ==
    IF y = 0 /\ x > 0 THEN <<0, ry>> ELSE <<np_arctan2(y, x), 0>>

\* the sign of the rounding error in sin_sum: a sum that is zero in exact
\* arithmetic comes out as zero or as a residue of either sign, unless
\* every sine is 0.0
circular_rounding(dirs, m, residue) ==
    IF \E j \in m : math_sin(dirs[j]) # 0 THEN residue ELSE 0

\* the weighted arithmetic mean of the directions, rounded down
linear_mean(dirs, ws, m, residue) ==
    IF m = {} THEN <<0, 0>>
    ELSE <<SumSet([j \in m |-> ws[j] * dirs[j]], m) \div SumSet(ws, m), 0>>

\* circular_mean(directions[mask], weights[mask]), a float angle
circular_mean(dirs, ws, m, residue) ==
    IF m = {} THEN <<0, 0>>
    ELSE Bind(<<SumSet([j \in m |-> ws[j] * math_sin(dirs[j])], m),
                SumSet([j \in m |-> ws[j] * math_cos(dirs[j])], m)>>,
              LAMBDA sums :
                 Bind(np_degrees_arctan2(sums[1],
                          circular_rounding(dirs, m, residue), sums[2]),
                      LAMBDA deg :
                         IF float_lt_zero(deg) THEN float_add(deg, 360) ELSE deg))

\* one float angle for each target time
smooth_wind_direction(ts, dirs, tt, sg, residue) ==
    [k \in DOMAIN tt |->
        IF Cardinality(mask(ts, tt[k], sg)) > 0
        THEN Bind(<<weights(ts, tt[k], sg), mask(ts, tt[k], sg)>>,
                  LAMBDA wm : circular_mean(dirs, wm[1], wm[2], residue))
        ELSE <<dirs[np_argmin(time_diffs(ts, tt[k]))], 0>>]

\* wind_dir = math.degrees(math.atan2(-wind_u, -wind_v)), made non-negative;
\* with both components 0.0 the arguments are -0.0 and atan2 returns -pi
wind_direction_from(u, v) ==
    IF u = 0 /\ v = 0 THEN 180
    ELSE Bind(math_atan2(-u, -v), LAMBDA d : IF d < 0 THEN d + 360 ELSE d)

\* return []
NoFrames == [raised |-> FALSE, error |-> "", frame_times |-> <<>>, frames |-> <<>>]

\* the call ends with the exception e and returns nothing
Raise(e) == [raised |-> TRUE, error |-> e, frame_times |-> <<>>, frames |-> <<>>]

\* ---- process_day_enhanced ----

\* sensor_data[sensor] of process_day_enhanced for the rows of one sensor
enhanced_sensor_entry(sensor_df, coords, ft, sg) ==
    Bind(smooth_whole(timestamps(sensor_df), pollutions(sensor_df), ft, sg),
         LAMBDA smoothed_pollution :
            [sensor |-> sensor_df[1].sensor_id,
             lat |-> coords[sensor_df[1].sensor_id][1],
             lon |-> coords[sensor_df[1].sensor_id][2],
             pollution |-> smoothed_pollution,
             trends |-> calculate_trend(smoothed_pollution, 5, 0)])

\* the loop over the sensors: sensor_data, in order of insertion
enhanced_sensor_data(d, coords, ft, sg) ==
    Bind(eligible_sensors(d),
         LAMBDA kept :
            [k \in DOMAIN kept |->
                Bind(sensor_rows(d, kept[k]),
                     LAMBDA sensor_df :
                        enhanced_sensor_entry(sensor_df, coords, ft, sg))])

\* drop_duplicates('timestamp'): the first row of each timestamp
drop_duplicates(d) ==
    Bind({j \in DOMAIN d : \A k \in 1..(j - 1) : d[k].timestamp # d[j].timestamp},
         LAMBDA K : boolean_index(d, K))

\* <<smoothed_wind_u, smoothed_wind_v, smoothed_wind_speed>> of wind_df
smooth_station_wind(wind_df, ft, sg) ==
    IF Len(wind_df) > 0
    THEN <<smooth_whole(timestamps(wind_df),
                        [j \in DOMAIN wind_df |-> wind_df[j].wind.u], ft, sg),
           smooth_whole(timestamps(wind_df),
                        [j \in DOMAIN wind_df |-> wind_df[j].wind.v], ft, sg),
           smooth_whole(timestamps(wind_df),
                        [j \in DOMAIN wind_df |-> wind_df[j].wind.ws], ft, sg)>>
    ELSE <<zeros(Len(ft)), zeros(Len(ft)), zeros(Len(ft))>>

\* the station wind: one row for each timestamp, sorted, complete rows only
station_wind(d, ft, sg) ==
    Bind(drop_duplicates(d),
         LAMBDA first_rows :
            Bind(sort_values(first_rows),
                 LAMBDA sorted :
                    Bind(SelectSeq(sorted, LAMBDA r : ~r.wind.isna),
                         LAMBDA wind_df : smooth_station_wind(wind_df, ft, sg))))

\* EnhancedFrameData(...) of one pass of the frame loop; time_label,
\* pollution_field and field_extent are left out
frame_record(t, sensors, wind_speed, u, v, gradient_dir, rel) ==
    [timestamp |-> t,
     sensors |-> sensors,
     wind_speed |-> wind_speed,
     wind_direction |-> wind_direction_from(u, v),
     wind_u |-> u,
     wind_v |-> v,
     pollution_gradient_direction |-> gradient_dir,
     wind_pollution_alignment |-> rel[1],
     transport_indicator |-> rel[2]]

\* sensors_list of one pass of the frame loop; the label text is left out
sensors_list(lons, lats, pvals, trend_values, scores) ==
    [j \in DOMAIN lons |->
        [lon |-> lons[j], lat |-> lats[j], pollution |-> pvals[j],
         trend |-> trend_values[j], upwindness |-> scores[j]]]

\* one pass of the frame loop for the collected snapshot
frame_of_snapshot(t, lons, lats, pvals, trend_values, u, v, wind_speed) ==
    Bind(calculate_pollution_gradient(lons, lats, pvals, FALSE, 0)[1],
         LAMBDA gradient_dir :
            Bind(<<analyze_wind_pollution_relationship(u, v, gradient_dir[1]),
                   determine_upwind_sensor(lons, lats, u, v)>>,
                 LAMBDA x :
                    frame_record(t,
                        sensors_list(lons, lats, pvals, trend_values, x[2]),
                        wind_speed, u, v, gradient_dir, x[1])))

\* one pass of the frame loop of process_day_enhanced, sensor_data not empty
enhanced_frame(sd, wind, ft, i) ==
    Bind(<<[j \in DOMAIN sd |-> sd[j].lon],
           [j \in DOMAIN sd |-> sd[j].lat],
           [j \in DOMAIN sd |-> sd[j].pollution[i]],
           [j \in DOMAIN sd |-> sd[j].trends[i]],
           wind[1][i], wind[2][i], wind[3][i]>>,
         LAMBDA x : frame_of_snapshot(ft[i], x[1], x[2], x[3], x[4],
                                      x[5], x[6], x[7]))

\* the part of process_day_enhanced after the frame times are built
enhanced_frames(d, coords, ft, sg) ==
    Bind(<<enhanced_sensor_data(d, coords, ft, sg), station_wind(d, ft, sg)>>,
         LAMBDA x :
            [raised |-> FALSE,
             error |-> "",
             frame_times |-> ft,
             frames |-> IF Len(x[1]) = 0 THEN <<>>
                        ELSE [i \in DOMAIN ft |-> enhanced_frame(x[1], x[2], ft, i)]])

\* the part of process_day_enhanced after the date filter
enhanced_valid_rows(on_date, cols, coords, interval, sg) ==
    IF Len(on_date) = 0 THEN NoFrames
    ELSE IF "sn.x" \notin cols THEN Raise("KeyError: 'sn.x'")
    ELSE IF PollutionColumn \notin cols
         THEN Raise("KeyError: 'cpc_particle_number_conc_corr.x'")
    ELSE Bind(dropna(on_date, coords),
              LAMBDA d :
                 IF Len(d) = 0 THEN NoFrames
                 ELSE Bind(make_frame_times(d, interval),
                           LAMBDA ft : enhanced_frames(d, coords, ft, sg)))

\* returns the frame times it built and the list of frames
process_day_enhanced(raw, cols, coords, interval, sg) ==
    IF "timestamp" \notin cols THEN Raise("KeyError: 'timestamp'")
    ELSE Bind(on_target_date(raw),
              LAMBDA on_date :
                 enhanced_valid_rows(on_date, cols, coords, interval, sg))

\* ---- process_day ----

\* the wind of one sensor: <<smoothed_wind_dir, smoothed_wind_speed>>
sensor_wind(wind_df, ft, sg) ==
    IF Len(wind_df) > 0
    THEN <<smooth_wind_direction(timestamps(wind_df),
               [j \in DOMAIN wind_df |-> wind_df[j].wind.wd], ft, sg, 0),
           smooth_whole(timestamps(wind_df),
               [j \in DOMAIN wind_df |-> wind_df[j].wind.ws], ft, sg)>>
    ELSE <<zeros(Len(ft)), zeros(Len(ft))>>

\* sensor_data[sensor] of process_day for the rows of one sensor
day_sensor_entry(sensor_df, coords, ft, sg) ==
    Bind(<<smooth_whole(timestamps(sensor_df), pollutions(sensor_df), ft, sg),
           SelectSeq(sensor_df, LAMBDA r : ~r.wind.isna)>>,
         LAMBDA x :
            Bind(sensor_wind(x[2], ft, sg),
                 LAMBDA w :
                    [sensor |-> sensor_df[1].sensor_id,
                     lat |-> coords[sensor_df[1].sensor_id][1],
                     lon |-> coords[sensor_df[1].sensor_id][2],
                     pollution |-> x[1],
                     wind_dir |-> w[1],
                     wind_speed |-> w[2]]))

\* the loop over the sensors: sensor_data, in order of insertion
day_sensor_data(d, coords, ft, sg) ==
    Bind(eligible_sensors(d),
         LAMBDA kept :
            [k \in DOMAIN kept |->
                Bind(sensor_rows(d, kept[k]),
                     LAMBDA sensor_df :
                        day_sensor_entry(sensor_df, coords, ft, sg))])

\* the rows process_day keeps: valid, not an outlier, wind speed below the cap
day_rows(raw, coords) ==
    Bind(dropna(on_target_date(raw), coords),
         LAMBDA d :
            IF Len(d) = 0 THEN d
            ELSE Bind(filter_outliers(d),
                      LAMBDA f : IF Len(f) > 0 THEN filter_wind(f) ELSE f))

\* the frame loop, had every pass gone through sensor_data from another start
day_frames_rotating(sd, ft) ==
    IF Len(sd) = 0 THEN <<>>
    ELSE [i \in DOMAIN ft |->
            [timestamp |-> ft[i],
             sensors |-> [j \in DOMAIN sd |->
                            Bind(sd[((j + i) % Len(sd)) + 1],
                                 LAMBDA data :
                                    [lon |-> data.lon,
                                     lat |-> data.lat,
                                     pollution |-> data.pollution[i],
                                     wind_dir |-> data.wind_dir[i],
                                     wind_speed |-> data.wind_speed[i],
                                     sensor_id |-> data.sensor])]]]

\* the frame loop of process_day
day_frames(sd, ft) ==
    IF Len(sd) = 0 THEN <<>>
    ELSE [i \in DOMAIN ft |->
            [timestamp |-> ft[i],
             sensors |-> [j \in DOMAIN sd |->
                            [lon |-> sd[j].lon,
                             lat |-> sd[j].lat,
                             pollution |-> sd[j].pollution[i],
                             wind_dir |-> sd[j].wind_dir[i],
                             wind_speed |-> sd[j].wind_speed[i],
                             sensor_id |-> sd[j].sensor]]]]

\* the part of process_day after the row filters
day_kept_rows(d, coords, interval, sg) ==
    IF Len(d) = 0 THEN NoFrames
    ELSE Bind(make_frame_times(d, interval),
              LAMBDA ft :
                 Bind(day_sensor_data(d, coords, ft, sg),
                      LAMBDA sd : [raised |-> FALSE,
                                   error |-> "",
                                   frame_times |-> ft,
                                   frames |-> day_frames(sd, ft)]))

process_day(raw, cols, coords, interval, sg) ==
    IF "timestamp" \notin cols THEN Raise("KeyError: 'timestamp'")
    ELSE IF Len(on_target_date(raw)) = 0 THEN NoFrames
    ELSE IF "sn.x" \notin cols
         THEN Raise("ValueError: Could not find sensor ID column 'sn.x' in data")
    ELSE IF PollutionColumn \notin cols
         THEN Raise("ValueError: Pollution column 'cpc_particle_number_conc_corr.x' not found in data")
    ELSE Bind(day_rows(raw, coords),
              LAMBDA d : day_kept_rows(d, coords, interval, sg))

DayInit ==
    /\ pc = "day"
    /\ SmoothIdle
    /\ WindIdle
    /\ GradIdle
    /\ FieldIdle
    /\ CircIdle
    /\ TrendIdle
    /\ UpwindIdle
    /\ DataIdle
    /\ ResampleIdle
    /\ PassIdle
    /\ HeapIdle
    /\ RenderIdle
    /\ \E w \in WindPatterns, na \in 0..MaxRows, nb \in 0..MaxRows,
          ta \in {0, 1}, tb \in {0, 3}, step \in {0, 1},
          pat \in PollutionPatterns :
          df = RowsOf("A", na, ta, step, 1, pat, w)
               \o RowsOf("B", nb, tb, 1, 2, "flat", w)
    /\ columns \in ColumnSets
    /\ sensor_coords \in SensorCoordsSet
    /\ frame_interval_minutes \in FrameIntervalSet
    /\ smoothing_sigma_minutes \in SigmaSet
    /\ frame_times = <<>>
    /\ frames = <<>>

ProcessDayEnhanced ==
    /\ pc = "day"
    /\ \E result \in {process_day_enhanced(df, columns, sensor_coords,
                         frame_interval_minutes, smoothing_sigma_minutes)} :
          /\ frame_times' = result.frame_times
          /\ frames' = result.frames
          /\ error' = result.error
          /\ pc' = IF result.raised THEN "process_day_enhanced_raised"
                   ELSE "process_day_enhanced_done"
    /\ UNCHANGED <<smooth_vars, wind_vars, grad_vars, df, columns, sensor_coords,
                   frame_interval_minutes, smoothing_sigma_minutes, field_vars,
                   circ_vars, trend_vars, upwind_vars, processed_data,
                   resample_vars, pass_vars, heap_vars, render_vars>>

ProcessDay ==
    /\ pc = "day"
    /\ \E result \in {process_day(df, columns, sensor_coords,
                         frame_interval_minutes, smoothing_sigma_minutes)} :
          /\ frame_times' = result.frame_times
          /\ frames' = result.frames
          /\ error' = result.error
          /\ pc' = IF result.raised THEN "process_day_raised"
                   ELSE "process_day_done"
    /\ UNCHANGED <<smooth_vars, wind_vars, grad_vars, df, columns, sensor_coords,
                   frame_interval_minutes, smoothing_sigma_minutes, field_vars,
                   circ_vars, trend_vars, upwind_vars, processed_data,
                   resample_vars, pass_vars, heap_vars, render_vars>>

DayNext == ProcessDayEnhanced \/ ProcessDay

SpecDay == DayInit /\ [][DayNext]_vars

(***************************************************************************)
(* The loop passes of process_day_enhanced evaluated in any order.  A pass *)
(* is the body of one loop for one index: the smoothing of one sensor at   *)
(* one frame time (gaussian_kernel_smooth, lines 61-73), the trend of one  *)
(* sensor at one frame time (calculate_trend, lines 92-101), or one frame  *)
(* (lines 397-488).  The output arrays start as np.zeros; a pass reads the *)
(* arrays as they are when it runs.  The station wind is smoothed before   *)
(* the passes start.  Every sensor of the day has at least 3 rows.         *)
(***************************************************************************)
\* the valid rows of the day
pass_rows == dropna(on_target_date(df), sensor_coords)

\* sensor_data before any pass: the output arrays as np.zeros returns them
empty_sensor_data(d, coords, ft) ==
    Bind(eligible_sensors(d),
         LAMBDA kept :
            [k \in DOMAIN kept |->
                [sensor |-> kept[k],
                 lat |-> coords[kept[k]][1],
                 lon |-> coords[kept[k]][2],
                 pollution |-> zeros(Len(ft)),
                 trends |-> [i \in DOMAIN ft |-> NoTrend]]])

\* the passes of the day
smooth_passes == {<<"smooth", k, i>> : k \in DOMAIN sensor_data, i \in DOMAIN frame_times}
trend_passes == {<<"trend", k, i>> : k \in DOMAIN sensor_data, i \in DOMAIN frame_times}
frame_passes == {<<"frame", 0, i>> : i \in DOMAIN frame_times}
passes == smooth_passes \cup trend_passes \cup frame_passes

\* the indices of values[start:end] in calculate_trend for index i
trend_window(i, n) == {j \in 1..n : i - 2 <= j /\ j <= i + 2}

\* no pass reads the output of another
reads_no_pass(q) == {}

\* the passes whose output pass q reads
reads(q) ==
    CASE q[1] = "smooth" -> {}
      [] q[1] = "trend" ->
            {<<"smooth", q[2], j>> : j \in trend_window(q[3], Len(frame_times))}
      [] q[1] = "frame" ->
            {<<"smooth", k, q[3]>> : k \in DOMAIN sensor_data}
            \cup {<<"trend", k, q[3]>> : k \in DOMAIN sensor_data}

\* smoothed[i] of sensor k: reads the rows of the sensor only
smooth_pass(d, ft, sg, sensor, i) ==
    Bind(sensor_rows(d, sensor),
         LAMBDA sensor_df :
            smooth_whole(timestamps(sensor_df), pollutions(sensor_df),
                         <<ft[i]>>, sg)[1])

\* trends[i] of sensor k: reads the smoothed array of the sensor
trend_pass(sd, d, ft, sg, k, i) == calculate_trend(sd[k].pollution, 5, 0)[i]

InterleavedInit ==
    /\ pc = "passes"
    /\ SmoothIdle
    /\ WindIdle
    /\ GradIdle
    /\ FieldIdle
    /\ CircIdle
    /\ TrendIdle
    /\ UpwindIdle
    /\ DataIdle
    /\ ResampleIdle
    /\ columns = AllColumns
    /\ sensor_coords \in SensorCoordsSet
    /\ \E w \in {"none", "north"}, pat \in {"rising", "spike"} :
          \/ df = RowsOf("A", 3, 0, 2, 1, pat, w)
          \/ df = RowsOf("A", 3, 0, 0, 1, pat, w) \o RowsOf("B", 3, 1, 0, 2, "flat", w)
    /\ frame_interval_minutes = 5
    /\ smoothing_sigma_minutes \in SigmaSet
    /\ frame_times = make_frame_times(pass_rows, frame_interval_minutes)
    /\ frames = [i \in DOMAIN frame_times |-> <<>>]
    /\ sensor_data = empty_sensor_data(pass_rows, sensor_coords, frame_times)
    /\ done = {}
    /\ in_order = TRUE
    /\ HeapIdle
    /\ RenderIdle

SmoothPass ==
    /\ pc = "passes"
    /\ \E q \in smooth_passes \ done :
          /\ sensor_data' =
                [sensor_data EXCEPT ![q[2]].pollution[q[3]] =
                    smooth_pass(pass_rows, frame_times, smoothing_sigma_minutes,
                                sensor_data[q[2]].sensor, q[3])]
          /\ done' = done \cup {q}
          /\ in_order' = (in_order /\ reads(q) \subseteq done)
    /\ UNCHANGED <<pc, smooth_vars, wind_vars, grad_vars, day_vars, field_vars,
                   circ_vars, trend_vars, upwind_vars, data_vars, resample_vars,
                   heap_vars, render_vars>>

TrendPass ==
    /\ pc = "passes"
    /\ \E q \in trend_passes \ done :
          /\ sensor_data' =
                [sensor_data EXCEPT ![q[2]].trends[q[3]] =
                    trend_pass(sensor_data, pass_rows, frame_times,
                               smoothing_sigma_minutes, q[2], q[3])]
          /\ done' = done \cup {q}
          /\ in_order' = (in_order /\ reads(q) \subseteq done)
    /\ UNCHANGED <<pc, smooth_vars, wind_vars, grad_vars, day_vars, field_vars,
                   circ_vars, trend_vars, upwind_vars, data_vars, resample_vars,
                   heap_vars, render_vars>>

FramePass ==
    /\ pc = "passes"
    /\ Len(sensor_data) > 0
    /\ \E q \in frame_passes \ done :
          /\ \E wind \in {station_wind(pass_rows, frame_times,
                                       smoothing_sigma_minutes)} :
                frames' = [frames EXCEPT ![q[3]] =
                              enhanced_frame(sensor_data, wind, frame_times, q[3])]
          /\ done' = done \cup {q}
          /\ in_order' = (in_order /\ reads(q) \subseteq done)
    /\ UNCHANGED <<pc, smooth_vars, wind_vars, grad_vars, df, columns,
                   sensor_coords, frame_interval_minutes,
                   smoothing_sigma_minutes, frame_times, field_vars, circ_vars,
                   trend_vars, upwind_vars, data_vars, resample_vars,
                   sensor_data, heap_vars, render_vars>>

\* return frames
PassesReturn ==
    /\ pc = "passes"
    /\ done = passes \/ Len(sensor_data) = 0
    /\ frames' = IF Len(sensor_data) = 0 THEN <<>> ELSE frames
    /\ pc' = "passes_done"
    /\ UNCHANGED <<smooth_vars, wind_vars, grad_vars, df, columns,
                   sensor_coords, frame_interval_minutes,
                   smoothing_sigma_minutes, frame_times, field_vars, circ_vars,
                   trend_vars, upwind_vars, data_vars, resample_vars,
                   pass_vars, heap_vars, render_vars>>

InterleavedNext == SmoothPass \/ TrendPass \/ FramePass \/ PassesReturn

SpecInterleaved == InterleavedInit /\ [][InterleavedNext]_vars

(***************************************************************************)
(* process_day and process_day_enhanced statement by statement, on objects *)
(* with identity: heap[r] is the table or the list that the reference r    *)
(* names.  heap[caller_df] is the table of the caller; a frame holds the   *)
(* reference of its sensors list.                                          *)
(***************************************************************************)
FrameBuilders == {"process_day", "process_day_enhanced"}

\* the positions of a call of the frame builder b
at_copy(b) == IF b = "process_day" THEN "process_day: copy"
              ELSE "process_day_enhanced: copy"
at_columns(b) == IF b = "process_day" THEN "process_day: columns"
                 ELSE "process_day_enhanced: columns"
at_rows(b) == IF b = "process_day" THEN "process_day: rows"
              ELSE "process_day_enhanced: rows"
at_frame_loop(b) == IF b = "process_day" THEN "process_day: frame loop"
                    ELSE "process_day_enhanced: frame loop"
at_return(b) == IF b = "process_day" THEN "process_day: returned"
                ELSE "process_day_enhanced: returned"

\* the argument df of the call: the reference of the caller's table
caller_df == 1

\* a table object
Table(rows, cols) == [rows |-> rows, columns |-> cols]

\* the reference of an object that did not exist before
new_object(h) == Len(h) + 1

\* the object r of the heap h becomes v
Store(h, r, v) == IF r = Len(h) + 1 THEN Append(h, v) ELSE [h EXCEPT ![r] = v]

\* df[...] without .copy(), taken as a view: the same object
boolean_index_view(h, r) == r

\* df[...].copy(): a new table
boolean_index_copy(h, r) == new_object(h)

\* the sensors list of the previous pass, used again
sensors_list_reused(h, fs) ==
    IF Len(fs) = 0 THEN new_object(h) ELSE fs[Len(fs)].sensors

\* sensors_list = []: a new list in every pass of the frame loop
sensors_list_new(h, fs) == new_object(h)

\* the columns the frame builder b assigns to its table
derived_columns(b) ==
    IF b = "process_day"
    THEN {"sensor_id", "lat", "lon", "pollution", "wind_dir", "wind_speed"}
    ELSE {"sensor_id", "lat", "lon", "pollution"}

\* the rows the frame builder b keeps of the rows of the target date
kept_rows(b, on_date, coords) ==
    IF b = "process_day" THEN day_rows(on_date, coords) ELSE dropna(on_date, coords)

\* sensor_data of the frame builder b
sensor_data_of(b, d, coords, ft, sg) ==
    IF b = "process_day" THEN day_sensor_data(d, coords, ft, sg)
    ELSE enhanced_sensor_data(d, coords, ft, sg)

\* the frame the pass i of the frame loop of b builds
frame_of_pass(b, sd, d, ft, sg, i) ==
    IF b = "process_day" THEN day_frames(sd, ft)[i]
    ELSE Bind(station_wind(d, ft, sg),
              LAMBDA wind : enhanced_frame(sd, wind, ft, i))

\* a frame with its sensors list in place of the reference
Deref(h, f) == [f EXCEPT !.sensors = h[f.sensors]]

StepwiseInit ==
    /\ \E b \in FrameBuilders : pc = at_copy(b)
    /\ SmoothIdle
    /\ WindIdle
    /\ GradIdle
    /\ FieldIdle
    /\ CircIdle
    /\ TrendIdle
    /\ UpwindIdle
    /\ DataIdle
    /\ ResampleIdle
    /\ \E w \in {"none", "north"}, na \in 0..MaxRows, nb \in {0, 3},
          pat \in {"flat", "rising", "nan", "nextday"} :
          df = RowsOf("A", na, 0, 1, 1, pat, w) \o RowsOf("B", nb, 1, 1, 2, "flat", w)
    /\ columns = AllColumns
    /\ sensor_coords \in SensorCoordsSet
    /\ frame_interval_minutes = 5
    /\ smoothing_sigma_minutes \in SigmaSet
    /\ frame_times = <<>>
    /\ frames = <<>>
    /\ sensor_data = <<>>
    /\ done = {}
    /\ in_order = TRUE
    /\ heap = <<Table(df, columns)>>
    /\ local_df = caller_df
    /\ frame_index = 0
    /\ RenderIdle

\* df = df[df['timestamp'].dt.date == target].copy(); if len(df) == 0: return []
FilterCopy(b) ==
    /\ pc = at_copy(b)
    /\ \E r \in {boolean_index_copy(heap, local_df)},
          on_date \in {on_target_date(heap[local_df].rows)} :
          /\ heap' = Store(heap, r, Table(on_date, heap[local_df].columns))
          /\ local_df' = r
          /\ pc' = IF Len(on_date) = 0 THEN at_return(b) ELSE at_columns(b)
    /\ UNCHANGED <<smooth_vars, wind_vars, grad_vars, day_vars, field_vars,
                   circ_vars, trend_vars, upwind_vars, data_vars, resample_vars,
                   pass_vars, frame_index, render_vars>>

\* df['sensor_id'] = ..., df['lat'] = ..., df['lon'] = ..., df['pollution'] = ...
AssignColumns(b) ==
    /\ pc = at_columns(b)
    /\ heap' = [heap EXCEPT ![local_df].columns = @ \cup derived_columns(b)]
    /\ pc' = at_rows(b)
    /\ UNCHANGED <<smooth_vars, wind_vars, grad_vars, day_vars, field_vars,
                   circ_vars, trend_vars, upwind_vars, data_vars, resample_vars,
                   pass_vars, local_df, frame_index, render_vars>>

\* df = df.dropna(...) and the row filters; frame_times; the loop over the
\* sensors fills sensor_data; frames = []
FilterRows(b) ==
    /\ pc = at_rows(b)
    /\ \E d \in {kept_rows(b, heap[local_df].rows, sensor_coords)} :
          /\ heap' = Store(heap, new_object(heap),
                           Table(d, heap[local_df].columns))
          /\ local_df' = new_object(heap)
          /\ IF Len(d) = 0
             THEN /\ pc' = at_return(b)
                  /\ UNCHANGED <<frame_times, sensor_data, frame_index>>
             ELSE \E ft \in {make_frame_times(d, frame_interval_minutes)} :
                     /\ frame_times' = ft
                     /\ sensor_data' = sensor_data_of(b, d, sensor_coords, ft,
                                                      smoothing_sigma_minutes)
                     /\ frame_index' = 1
                     /\ pc' = at_frame_loop(b)
    /\ UNCHANGED <<smooth_vars, wind_vars, grad_vars, df, columns, sensor_coords,
                   frame_interval_minutes, smoothing_sigma_minutes, frames,
                   field_vars, circ_vars, trend_vars, upwind_vars, data_vars,
                   resample_vars, done, in_order, render_vars>>

\* one pass of the frame loop: a new sensors list, filled, and a frame that
\* holds it appended to frames; no frame when sensor_data is empty
AppendFrame(b) ==
    /\ pc = at_frame_loop(b)
    /\ frame_index <= Len(frame_times)
    /\ IF Len(sensor_data) = 0
       THEN UNCHANGED <<heap, frames>>
       ELSE \E r \in {sensors_list_new(heap, frames)},
               f \in {frame_of_pass(b, sensor_data, heap[local_df].rows,
                                    frame_times, smoothing_sigma_minutes,
                                    frame_index)} :
               /\ heap' = Store(heap, r, f.sensors)
               /\ frames' = Append(frames, [f EXCEPT !.sensors = r])
    /\ frame_index' = frame_index + 1
    /\ UNCHANGED <<pc, smooth_vars, wind_vars, grad_vars, df, columns,
                   sensor_coords, frame_interval_minutes,
                   smoothing_sigma_minutes, frame_times, field_vars, circ_vars,
                   trend_vars, upwind_vars, data_vars, resample_vars, pass_vars,
                   local_df, render_vars>>

\* return frames
ReturnFrames(b) ==
    /\ pc = at_frame_loop(b)
    /\ frame_index > Len(frame_times)
    /\ pc' = at_return(b)
    /\ UNCHANGED <<smooth_vars, wind_vars, grad_vars, day_vars, field_vars,
                   circ_vars, trend_vars, upwind_vars, data_vars, resample_vars,
                   pass_vars, heap_vars, render_vars>>

DayFilterCopy == FilterCopy("process_day")
DayAssignColumns == AssignColumns("process_day")
DayFilterRows == FilterRows("process_day")
DayAppendFrame == AppendFrame("process_day")
DayReturnFrames == ReturnFrames("process_day")
EnhancedFilterCopy == FilterCopy("process_day_enhanced")
EnhancedAssignColumns == AssignColumns("process_day_enhanced")
EnhancedFilterRows == FilterRows("process_day_enhanced")
EnhancedAppendFrame == AppendFrame("process_day_enhanced")
EnhancedReturnFrames == ReturnFrames("process_day_enhanced")

StepwiseNext ==
    \/ DayFilterCopy
    \/ DayAssignColumns
    \/ DayFilterRows
    \/ DayAppendFrame
    \/ DayReturnFrames
    \/ EnhancedFilterCopy
    \/ EnhancedAssignColumns
    \/ EnhancedFilterRows
    \/ EnhancedAppendFrame
    \/ EnhancedReturnFrames

SpecStepwise == StepwiseInit /\ [][StepwiseNext]_vars

(***************************************************************************)
(* The day loop of render_animation (src/animation/render.py) and of main  *)
(* (src/animation_python/render_combined.py) with render_all_frames        *)
(* (src/animation/renderer.py, src/animation/improved_renderer.py): the    *)
(* worker threads of the pool take the frames of the day one by one.       *)
(* Frames render without an exception.                                     *)
(***************************************************************************)
MaxDays == 3
MaxDayFrames == 2

\* num_workers=8
num_workers == 8

RenderPrograms == {"render_animation", "render_combined"}

\* the threads of the pool that can get a frame: a thread is started only
\* when a frame is submitted and no thread is idle
Workers == 1..(IF num_workers < MaxDayFrames THEN num_workers ELSE MaxDayFrames)

\* the file n is written with the frame i of the date d
write_file(fs, n, d, i) ==
    IF n \in DOMAIN fs
    THEN [fs EXCEPT ![n].content = @ \cup {<<d, i>>}, ![n].writes = @ + 1]
    ELSE [m \in DOMAIN fs \cup {n} |->
            IF m = n THEN [content |-> {<<d, i>>}, writes |-> 1] ELSE fs[m]]

at_day_loop(p) == IF p = "render_animation" THEN "render_animation: day loop"
                  ELSE "render_combined: day loop"
at_render_all_frames(p) ==
    IF p = "render_animation" THEN "render_animation: render_all_frames"
    ELSE "render_combined: render_all_frames"
at_total_frames(p) == IF p = "render_animation" THEN "render_animation: total_frames"
                      ELSE "render_combined: total_frames"

\* enumerate(frames): the indices, from 0
enumerate(total) == [k \in 1..total |-> k - 1]

\* the number of the file, had the frames been counted from 1
frame_num_from_one(start, i) == start + i + 1

\* frame_num = start_frame + i
frame_num(start, i) == start + i

IdleWorker == [at |-> "idle", i |-> 0, seen |-> 0]

\* the entry of the day in day_stats (day_info)
day_entry(date, start, next_frame, count) ==
    [date |-> date, start |-> start, end |-> next_frame - 1, count |-> count]

RenderInit ==
    /\ \E p \in RenderPrograms : pc = at_day_loop(p)
    /\ SmoothIdle
    /\ WindIdle
    /\ GradIdle
    /\ DayIdle
    /\ FieldIdle
    /\ CircIdle
    /\ TrendIdle
    /\ UpwindIdle
    /\ DataIdle
    /\ ResampleIdle
    /\ PassIdle
    /\ HeapIdle
    /\ \E n \in 1..MaxDays : frames_per_date \in [1..n -> 0..MaxDayFrames]
    /\ date_index = 1
    /\ frame_count = 1
    /\ start_frame = 0
    /\ day_stats = <<>>
    /\ files = <<>>
    /\ tasks = <<>>
    /\ workers = [w \in Workers |-> IdleWorker]
    /\ completed = 0

\* a date whose frame list is empty: continue
SkipDay(p) ==
    /\ pc = at_day_loop(p)
    /\ date_index <= Len(frames_per_date)
    /\ frames_per_date[date_index] = 0
    /\ date_index' = date_index + 1
    /\ start_frame' = IF p = "render_combined" THEN frame_count ELSE start_frame
    /\ UNCHANGED <<pc, smooth_vars, wind_vars, grad_vars, day_vars, field_vars,
                   circ_vars, trend_vars, upwind_vars, data_vars, resample_vars,
                   pass_vars, heap_vars, frames_per_date, frame_count, day_stats,
                   files, tasks, workers, completed>>

\* start_frame = frame_count; render_all_frames is called: completed = [0],
\* executor.map submits the frames of the day
StartDay(p) ==
    /\ pc = at_day_loop(p)
    /\ date_index <= Len(frames_per_date)
    /\ frames_per_date[date_index] > 0
    /\ start_frame' = frame_count
    /\ tasks' = enumerate(frames_per_date[date_index])
    /\ completed' = 0
    /\ pc' = at_render_all_frames(p)
    /\ UNCHANGED <<smooth_vars, wind_vars, grad_vars, day_vars, field_vars,
                   circ_vars, trend_vars, upwind_vars, data_vars, resample_vars,
                   pass_vars, heap_vars, frames_per_date, date_index,
                   frame_count, day_stats, files, workers>>

\* a thread of the pool takes the next frame and renders it
TakeFrame ==
    /\ pc \in {at_render_all_frames(p) : p \in RenderPrograms}
    /\ Len(tasks) > 0
    /\ \E w \in Workers :
          /\ workers[w].at = "idle"
          /\ workers' = [workers EXCEPT ![w] =
                            [at |-> "save_image", i |-> Head(tasks), seen |-> 0]]
    /\ tasks' = Tail(tasks)
    /\ UNCHANGED <<pc, smooth_vars, wind_vars, grad_vars, day_vars, field_vars,
                   circ_vars, trend_vars, upwind_vars, data_vars, resample_vars,
                   pass_vars, heap_vars, frames_per_date, date_index,
                   frame_count, start_frame, day_stats, files, completed>>

\* self.save_image(image, str(output_file)), then completed[0] is read
SaveImage ==
    /\ pc \in {at_render_all_frames(p) : p \in RenderPrograms}
    /\ \E w \in Workers :
          /\ workers[w].at = "save_image"
          /\ files' = write_file(files, frame_num(start_frame, workers[w].i),
                                  date_index, workers[w].i)
          /\ workers' = [workers EXCEPT ![w].at = "completed", ![w].seen = completed]
    /\ UNCHANGED <<pc, smooth_vars, wind_vars, grad_vars, day_vars, field_vars,
                   circ_vars, trend_vars, upwind_vars, data_vars, resample_vars,
                   pass_vars, heap_vars, frames_per_date, date_index,
                   frame_count, start_frame, day_stats, tasks, completed>>

\* completed[0] += 1 stores the value read plus one; render_one returns
CountCompleted ==
    /\ pc \in {at_render_all_frames(p) : p \in RenderPrograms}
    /\ \E w \in Workers :
          /\ workers[w].at = "completed"
          /\ completed' = workers[w].seen + 1
          /\ workers' = [workers EXCEPT ![w] = IdleWorker]
    /\ UNCHANGED <<pc, smooth_vars, wind_vars, grad_vars, day_vars, field_vars,
                   circ_vars, trend_vars, upwind_vars, data_vars, resample_vars,
                   pass_vars, heap_vars, frames_per_date, date_index,
                   frame_count, start_frame, day_stats, files, tasks>>

\* the pool is shut down; return start_frame + total; the day is recorded
FinishDay(p) ==
    /\ pc = at_render_all_frames(p)
    /\ Len(tasks) = 0
    /\ \A w \in Workers : workers[w].at = "idle"
    /\ \E next_frame \in {start_frame + frames_per_date[date_index]} :
          /\ frame_count' = next_frame
          /\ day_stats' = Append(day_stats,
                                 day_entry(date_index, start_frame, next_frame,
                                           frames_per_date[date_index]))
    /\ date_index' = date_index + 1
    /\ pc' = at_day_loop(p)
    /\ UNCHANGED <<smooth_vars, wind_vars, grad_vars, day_vars, field_vars,
                   circ_vars, trend_vars, upwind_vars, data_vars, resample_vars,
                   pass_vars, heap_vars, frames_per_date, start_frame, files,
                   tasks, workers, completed>>

\* total_frames = frame_count - 1
TotalFrames(p) ==
    /\ pc = at_day_loop(p)
    /\ date_index > Len(frames_per_date)
    /\ pc' = at_total_frames(p)
    /\ UNCHANGED <<smooth_vars, wind_vars, grad_vars, day_vars, field_vars,
                   circ_vars, trend_vars, upwind_vars, data_vars, resample_vars,
                   pass_vars, heap_vars, render_vars>>

AnimationSkipDay == SkipDay("render_animation")
AnimationStartDay == StartDay("render_animation")
AnimationFinishDay == FinishDay("render_animation")
AnimationTotalFrames == TotalFrames("render_animation")
CombinedSkipDay == SkipDay("render_combined")
CombinedStartDay == StartDay("render_combined")
CombinedFinishDay == FinishDay("render_combined")
CombinedTotalFrames == TotalFrames("render_combined")

RenderNext ==
    \/ AnimationSkipDay
    \/ AnimationStartDay
    \/ AnimationFinishDay
    \/ AnimationTotalFrames
    \/ CombinedSkipDay
    \/ CombinedStartDay
    \/ CombinedFinishDay
    \/ CombinedTotalFrames
    \/ TakeFrame
    \/ SaveImage
    \/ CountCompleted

SpecRender == RenderInit /\ [][RenderNext]_vars

(***************************************************************************)
(* process_data (src/animation/data_loader.py) and the frame builders on   *)
(* dataframes that may lack a column.  ProcessedData is carried as a       *)
(* record: animation_data holds one row for each (time_group, lat, lon,    *)
(* sensor_id) in the sorted order of groupby, with the mean pollution as   *)
(* <<sum, count>>; wind_summary holds one row for each time_group with     *)
(* each mean as <<sum, count>>, count 0 standing for NaN; the legend       *)
(* breaks, which come from the configuration alone, are left out.          *)
(***************************************************************************)
InputColumnSets ==
    {AllColumns, AllColumns \ {PollutionColumn}, AllColumns \ {"timestamp"},
     AllColumns \ {"sn.x"}}

\* the order of the sensor ids as strings
SensorRank(id) == IF id = "A" THEN 1 ELSE 2

\* df['timestamp'].dt.floor('5min')
time_group(r) == Timestamp_floor(r.timestamp, FiveMin)

\* the group key of a row: <<time_group, lat, lon, sensor_id>>
group_key(r, coords) ==
    <<time_group(r), coords[r.sensor_id][1], coords[r.sensor_id][2],
      SensorRank(r.sensor_id)>>

\* the order in which groupby returns its keys
KeyLess(a, b) ==
    \E k \in 1..4 : a[k] < b[k] /\ \A i \in 1..(k - 1) : a[i] = b[i]

\* the elements of the set K of keys, in increasing order
sorted_keys(K) ==
    [p \in 1..Cardinality(K) |->
        CHOOSE a \in K : Cardinality({b \in K : KeyLess(b, a)}) = p - 1]

\* df.groupby(group_cols).agg({'pollution': 'mean'}).reset_index()
animation_data_of(d, coords) ==
    Bind(sorted_keys({group_key(d[j], coords) : j \in DOMAIN d}),
         LAMBDA keys :
            [p \in DOMAIN keys |->
                Bind({j \in DOMAIN d : group_key(d[j], coords) = keys[p]},
                     LAMBDA G :
                        [time_group |-> keys[p][1],
                         lat |-> keys[p][2],
                         lon |-> keys[p][3],
                         sensor_id |-> d[CHOOSE j \in G : TRUE].sensor_id,
                         pollution |-> <<SumSet([j \in G |-> d[j].pollution], G),
                                         Cardinality(G)>>])])

\* sorted(animation_data['time_group'].unique())
unique_times_of(d) ==
    Bind({time_group(d[j]) : j \in DOMAIN d},
         LAMBDA T : [p \in 1..Cardinality(T) |->
                        CHOOSE t \in T : Cardinality({x \in T : x < t}) = p - 1])

\* df.groupby('time_group').agg(mean) of the three wind columns; a mean
\* skips the missing values
wind_summary_of(d) ==
    Bind(unique_times_of(d),
         LAMBDA ut :
            [p \in DOMAIN ut |->
                Bind({j \in DOMAIN d : /\ time_group(d[j]) = ut[p]
                                       /\ ~d[j].wind.isna},
                     LAMBDA G :
                        [time_group |-> ut[p],
                         avg_wind_u |-> <<SumSet([j \in G |-> d[j].wind.u], G),
                                          Cardinality(G)>>,
                         avg_wind_v |-> <<SumSet([j \in G |-> d[j].wind.v], G),
                                          Cardinality(G)>>,
                         avg_wind_speed |-> <<SumSet([j \in G |-> d[j].wind.ws], G),
                                              Cardinality(G)>>])])

\* the smallest and the largest mean of animation_data
pollution_stats_of(a) ==
    [min |-> a[CHOOSE p \in DOMAIN a :
                  \A q \in DOMAIN a : RatLe(a[p].pollution, a[q].pollution)].pollution,
     max |-> a[CHOOSE p \in DOMAIN a :
                  \A q \in DOMAIN a : RatLe(a[q].pollution, a[p].pollution)].pollution]

\* the part of process_data after the last check
ProcessedData(d, coords) ==
    Bind(animation_data_of(d, coords),
         LAMBDA a :
            [raised |-> FALSE,
             error |-> "",
             data |-> [animation_data |-> a,
                       wind_summary |-> wind_summary_of(d),
                       unique_times |-> unique_times_of(d),
                       pollution_stats |-> pollution_stats_of(a)]])

\* the call ends with the exception e: there is no ProcessedData
RaiseData(e) == [raised |-> TRUE, error |-> e, data |-> <<>>]

\* process_data without the check of the rows left after dropna
process_data_valid_unchecked(on_date, coords) ==
    Bind(dropna(on_date, coords),
         LAMBDA d :
            IF Len(d) = 0
            THEN [raised |-> FALSE, error |-> "",
                  data |-> [animation_data |-> <<>>, wind_summary |-> <<>>,
                            unique_times |-> <<>>]]
            ELSE ProcessedData(d, coords))

\* df.dropna(subset=['pollution', 'lat', 'lon']) and what follows
process_data_valid(on_date, coords) ==
    Bind(dropna(on_date, coords),
         LAMBDA d :
            IF Len(d) = 0
            THEN RaiseData("ValueError: No valid data after filtering (missing pollution or coordinates)")
            ELSE ProcessedData(d, coords))

\* process_data.  Without a sensor id column the dataframe of the model
\* has no column to take lat and lon from, and dropna raises KeyError.
process_data(raw, cols, coords) ==
    IF "timestamp" \notin cols
    THEN RaiseData("ValueError: Could not find timestamp column 'timestamp_local.x' in data")
    ELSE Bind(on_target_date(raw),
              LAMBDA on_date :
                 IF Len(on_date) = 0
                 THEN RaiseData("ValueError: No data found for date")
                 ELSE IF PollutionColumn \notin cols
                 THEN RaiseData("ValueError: Pollution column 'cpc_particle_number_conc_corr.x' not found in data")
                 ELSE IF "sn.x" \notin cols
                 THEN RaiseData("KeyError: ['lat', 'lon']")
                 ELSE process_data_valid(on_date, coords))

InputInit ==
    /\ pc = "day"
    /\ SmoothIdle
    /\ WindIdle
    /\ GradIdle
    /\ FieldIdle
    /\ CircIdle
    /\ TrendIdle
    /\ UpwindIdle
    /\ DataIdle
    /\ ResampleIdle
    /\ PassIdle
    /\ HeapIdle
    /\ RenderIdle
    /\ \E w \in {"none", "north"}, na \in 0..MaxRows, nb \in 0..MaxRows,
          ta \in {0, 1}, pat \in {"flat", "rising", "nan", "nextday"} :
          df = RowsOf("A", na, ta, 1, 1, pat, w)
               \o RowsOf("B", nb, 3, 1, 2, "flat", w)
    /\ columns \in InputColumnSets
    /\ sensor_coords \in SensorCoordsSet
    /\ frame_interval_minutes \in FrameIntervalSet
    /\ smoothing_sigma_minutes = 2
    /\ frame_times = <<>>
    /\ frames = <<>>

ProcessData ==
    /\ pc = "day"
    /\ \E result \in {process_data(df, columns, sensor_coords)} :
          /\ processed_data' = result.data
          /\ error' = result.error
          /\ pc' = IF result.raised THEN "process_data_raised"
                   ELSE "process_data_done"
    /\ UNCHANGED <<smooth_vars, wind_vars, grad_vars, day_vars, field_vars,
                   circ_vars, trend_vars, upwind_vars, resample_vars, pass_vars, heap_vars, render_vars>>

InputNext == ProcessData \/ ProcessDayEnhanced \/ ProcessDay

SpecInput == InputInit /\ [][InputNext]_vars

(***************************************************************************)
(* interpolate_pollution_field and idw_interpolation.  A field value is a  *)
(* record [num, den, ulp]: the fraction num / den, den positive, and the   *)
(* sign ulp of the rounding error the floating-point result carries.       *)
(* Coordinates are whole numbers of a unit far above 1e-10.                *)
(***************************************************************************)
ExtentSet == {<<0, 1, 0, 1>>}
ResolutionSet == {1, 2, 3}
ResidueSet == {-1, 0, 1}
\* rbf(grid_points) at row i, column j is base + step * (i + j - 2)
FieldValueSet == {-1, 0, 2}
RbfOutputSet == {[base |-> b, step |-> s] : b \in {-3, 1}, s \in {0, 2}}

RECURSIVE ProdSet(_, _)
ProdSet(f, S) ==
    IF S = {} THEN 1
    ELSE LET j == CHOOSE k \in S : TRUE IN f[j] * ProdSet(f, S \ {j})

Exact(n, d) == [num |-> n, den |-> d, ulp |-> 0]

\* a <= b for field values
CellLe(a, b) ==
    \/ a.num * b.den < b.num * a.den
    \/ a.num * b.den = b.num * a.den /\ a.ulp <= b.ulp

np_min(a) == CHOOSE x \in {a[k] : k \in DOMAIN a} : \A k \in DOMAIN a : x <= a[k]
np_max(a) == CHOOSE x \in {a[k] : k \in DOMAIN a} : \A k \in DOMAIN a : x >= a[k]

\* the step of np.linspace(start, stop, num) is (stop - start) / grid_scale
grid_scale(num) == IF num > 1 THEN num - 1 ELSE 1

\* np.linspace(start, stop, num), each point multiplied by grid_scale(num)
np_linspace(start, stop, num) ==
    [k \in 1..num |-> start * grid_scale(num) + (k - 1) * (stop - start)]

\* np.meshgrid(lons, lats): <<lon_grid, lat_grid>>
np_meshgrid(lons, lats) ==
    <<[i \in DOMAIN lats |-> [j \in DOMAIN lons |-> lons[j]]],
      [i \in DOMAIN lats |-> [j \in DOMAIN lons |-> lats[i]]]>>

\* distances ** 2 from the grid point (lon, lat) to the sensors, all
\* multiplied by scale ** 2
distances_squared(lons, lats, lon, lat, scale) ==
    [k \in DOMAIN lons |->
        (scale * lons[k] - lon) * (scale * lons[k] - lon)
      + (scale * lats[k] - lat) * (scale * lats[k] - lat)]

\* the rounding error of np.sum(weights * values) / np.sum(weights): none
\* when every value is 0.0
idw_rounding(vals, residue) ==
    IF \A k \in DOMAIN vals : vals[k] = 0 THEN 0 ELSE residue

idw_weights_uniform(d2, k) == 1

\* weights[k] = 1.0 / distances[k] ** 2, multiplied by the product of all
\* squared distances
idw_weights(d2, k) == ProdSet(d2, DOMAIN d2 \ {k})

\* the body of the loops of idw_interpolation for one cell, d2 the squared
\* distances: distances.min() < 1e-10 exactly when the least of them is 0
idw_cell(vals, d2, residue) ==
    IF np_min(d2) = 0
    THEN Exact(vals[np_argmin(d2)], 1)
    ELSE [num |-> SumSeq([k \in DOMAIN d2 |-> idw_weights(d2, k) * vals[k]]),
          den |-> SumSeq([k \in DOMAIN d2 |-> idw_weights(d2, k)]),
          ulp |-> idw_rounding(vals, residue)]

idw_interpolation(lons, lats, vals, lon_grid, lat_grid, scale, residue) ==
    [i \in DOMAIN lon_grid |->
        [j \in DOMAIN lon_grid[i] |->
            Bind(distances_squared(lons, lats, lon_grid[i][j], lat_grid[i][j], scale),
                 LAMBDA d2 : idw_cell(vals, d2, residue))]]

RBFInterpolator_raises_on_pivot(lons, lats, raises) == raises

\* RBFInterpolator(points, values, kernel='thin_plate_spline') raises: with
\* fewer points than the 3 monomials of degree 1, with all points on one
\* longitude or on one latitude (a column of the system is exactly zero),
\* or, for the other systems, whenever the solver reports a zero pivot
RBFInterpolator_raises(lons, lats, raises) ==
    \/ Len(lons) < 3
    \/ \A j, k \in DOMAIN lons : lons[j] = lons[k]
    \/ \A j, k \in DOMAIN lats : lats[j] = lats[k]
    \/ raises

\* rbf(grid_points).reshape(lon_grid.shape)
rbf_evaluate(out, lon_grid) ==
    [i \in DOMAIN lon_grid |->
        [j \in DOMAIN lon_grid[i] |-> Exact(out.base + out.step * (i + j - 2), 1)]]

np_maximum(a, b) == IF CellLe(a, b) THEN b ELSE a
np_minimum(a, b) == IF CellLe(a, b) THEN a ELSE b

np_clip_unbounded(x, lo, hi) == x

\* np.clip(x, lo, hi) is np.minimum(np.maximum(x, lo), hi)
np_clip(x, lo, hi) == np_minimum(np_maximum(x, lo), hi)

idw_fallback_reraise(lons, lats, vals, grids, scale, residue) ==
    [path |-> "raised", field |-> <<>>]

\* np.clip(field, pollution_values.min() * 0.5, pollution_values.max() * 1.5)
clip_field(f, vals) ==
    Bind(<<Exact(np_min(vals), 2), Exact(3 * np_max(vals), 2)>>,
         LAMBDA band :
            [i \in DOMAIN f |->
                [j \in DOMAIN f[i] |-> np_clip(f[i][j], band[1], band[2])]])

\* the except branch; distances.min() of no sensors raises ValueError
idw_fallback(lons, lats, vals, grids, scale, residue) ==
    IF Len(lons) = 0 /\ Len(grids[1]) > 0
    THEN [path |-> "raised", field |-> <<>>]
    ELSE [path |-> "idw",
          field |-> idw_interpolation(lons, lats, vals, grids[1], grids[2],
                                      scale, residue)]

\* the try statement, for the grids <<lon_grid, lat_grid>>
field_on_grid(lons, lats, vals, grids, scale, raises, out, residue) ==
    IF RBFInterpolator_raises(lons, lats, raises)
    THEN idw_fallback(lons, lats, vals, grids, scale, residue)
    ELSE [path |-> "rbf",
          field |-> Bind(rbf_evaluate(out, grids[1]),
                         LAMBDA f : clip_field(f, vals))]

\* returns the field and the branch that produced it
interpolate_pollution_field(lons, lats, vals, ext, res, raises, out, residue) ==
    Bind(np_meshgrid(np_linspace(ext[1], ext[2], res),
                     np_linspace(ext[3], ext[4], res)),
         LAMBDA grids : field_on_grid(lons, lats, vals, grids, grid_scale(res),
                                      raises, out, residue))

\* process_day_enhanced calls it for the sensors of a frame, at least one
FieldInit ==
    /\ pc = "field"
    /\ SmoothIdle
    /\ WindIdle
    /\ DayIdle
    /\ CircIdle
    /\ TrendIdle
    /\ UpwindIdle
    /\ DataIdle
    /\ ResampleIdle
    /\ PassIdle
    /\ HeapIdle
    /\ RenderIdle
    /\ lstsq_raises = FALSE
    /\ lstsq_residue = 0
    /\ gradient = <<>>
    /\ \E n \in 1..MaxSensors :
          /\ sensor_lons \in [1..n -> CoordSet]
          /\ sensor_lats \in [1..n -> CoordSet]
          /\ pollution_values \in [1..n -> FieldValueSet]
    /\ extent \in ExtentSet
    /\ resolution \in ResolutionSet
    /\ \/ /\ rbf_raises = TRUE
          /\ rbf_output = <<>>
          /\ idw_residue \in ResidueSet
       \/ /\ rbf_raises = FALSE
          /\ rbf_output \in RbfOutputSet
          /\ idw_residue = 0
    /\ field = <<>>
    /\ field_path = ""

InterpolatePollutionField ==
    /\ pc = "field"
    /\ \E result \in {interpolate_pollution_field(sensor_lons, sensor_lats,
                          pollution_values, extent, resolution, rbf_raises,
                          rbf_output, idw_residue)} :
          /\ field' = result.field
          /\ field_path' = result.path
          /\ pc' = IF result.path = "raised" THEN "field_raised" ELSE "field_done"
    /\ UNCHANGED <<smooth_vars, wind_vars, grad_vars, day_vars, extent, resolution,
                   rbf_raises, rbf_output, idw_residue, circ_vars, trend_vars,
                   upwind_vars, data_vars, resample_vars, pass_vars, heap_vars, render_vars>>

FieldNext == InterpolatePollutionField

SpecField == FieldInit /\ [][FieldNext]_vars

(***************************************************************************)
(* circular_mean and smooth_wind_direction called on their own.            *)
(***************************************************************************)
DirectionSet == {10, 45, 180, 315, 350}
CircularTimeSet == {0, 2, 5}
CircularTargetSet == {1, 3, 5}

\* process_day calls smooth_wind_direction with at least one observation
CircularInit ==
    /\ pc = "circular"
    /\ WindIdle
    /\ GradIdle
    /\ DayIdle
    /\ FieldIdle
    /\ TrendIdle
    /\ UpwindIdle
    /\ DataIdle
    /\ ResampleIdle
    /\ PassIdle
    /\ HeapIdle
    /\ RenderIdle
    /\ values = <<>>
    /\ \E n \in 1..MaxObs :
          /\ times \in [1..n -> CircularTimeSet]
          /\ directions \in [1..n -> DirectionSet]
          /\ mean_weights \in {[j \in 1..n |-> 1], [j \in 1..n |-> j]}
    /\ target_times \in {s \in SeqsUpTo(CircularTargetSet, 0, MaxTargets) :
                            Increasing(s)}
    /\ sigma_minutes \in SigmaSet
    /\ sum_residue \in ResidueSet
    /\ smoothed = <<>>
    /\ mean_deg = <<>>

CircularMean ==
    /\ pc = "circular"
    /\ mean_deg' = circular_mean(directions, mean_weights, DOMAIN directions,
                                 sum_residue)
    /\ pc' = "circular_mean_done"
    /\ UNCHANGED <<smooth_vars, wind_vars, grad_vars, day_vars, field_vars,
                   directions, mean_weights, sum_residue, trend_vars,
                   upwind_vars, data_vars, resample_vars, pass_vars, heap_vars, render_vars>>

SmoothWindDirection ==
    /\ pc = "circular"
    /\ smoothed' = smooth_wind_direction(times, directions, target_times,
                                         sigma_minutes, sum_residue)
    /\ pc' = "smooth_wind_direction_done"
    /\ UNCHANGED <<times, values, target_times, sigma_minutes, wind_vars,
                   grad_vars, day_vars, field_vars, circ_vars, trend_vars,
                   upwind_vars, data_vars, resample_vars, pass_vars, heap_vars, render_vars>>

CircularNext == CircularMean \/ SmoothWindDirection

SpecCircular == CircularInit /\ [][CircularNext]_vars

(***************************************************************************)
(* The two resamplers as a caller sees them: gaussian_kernel_smooth or     *)
(* smooth_wind_direction is called, the caller may reorder the             *)
(* observations, and the same resampler is called once more.  A value of   *)
(* gaussian_kernel_smooth is the float <<numerator, denominator, sign of   *)
(* the rounding error of the quotient>>.                                   *)
(***************************************************************************)
ResampleTimeSet == {0, 2, 6}
ResampleTargetSet == {0, 3}
ResampleValueSet == {0, 1, 5}
ResampleDirectionSet == {10, 180, 350}

\* the sign of the rounding error of sum(values * weights) / sum(weights):
\* none when every value is 0.0, none when every value is 1.0 (the two
\* sums are then the same float), and none for one value of weight 1.0
np_average_rounding(vs, ws, m, residue) ==
    IF \A j \in m : vs[j] = 0 THEN 0
    ELSE IF \A j \in m : vs[j] = 1 THEN 0
    ELSE IF Cardinality(m) = 1 /\ \A j \in m : ws[j] = 100 THEN 0
    ELSE residue

\* a resampler that keeps the array it returned and answers from it
float_smooth_at_cached(ts, vs, t, sg, residue) ==
    IF smoothed # <<>> THEN <<0, 1, 0>>
    ELSE IF Cardinality(mask(ts, t, sg)) > 0
    THEN Bind(<<weights(ts, t, sg), mask(ts, t, sg)>>,
              LAMBDA wm :
                 Bind(np_average(vs, wm[1], wm[2]),
                      LAMBDA a : <<a[1], a[2],
                                   np_average_rounding(vs, wm[1], wm[2], residue)>>))
    ELSE <<vs[np_argmin(time_diffs(ts, t))], 1, 0>>

\* a weighted average that leaves the weights out
float_smooth_at_unweighted(ts, vs, t, sg, residue) ==
    IF Cardinality(mask(ts, t, sg)) > 0
    THEN <<SumSet([j \in mask(ts, t, sg) |-> vs[j]], mask(ts, t, sg)), 1, 0>>
    ELSE <<vs[np_argmin(time_diffs(ts, t))], 1, 0>>

\* one pass of the loop body of gaussian_kernel_smooth, as a float
float_smooth_at(ts, vs, t, sg, residue) ==
    IF Cardinality(mask(ts, t, sg)) > 0
    THEN Bind(<<weights(ts, t, sg), mask(ts, t, sg)>>,
              LAMBDA wm :
                 Bind(np_average(vs, wm[1], wm[2]),
                      LAMBDA a : <<a[1], a[2],
                                   np_average_rounding(vs, wm[1], wm[2], residue)>>))
    ELSE <<vs[np_argmin(time_diffs(ts, t))], 1, 0>>

\* gaussian_kernel_smooth: one float for each target time
float_gaussian_kernel_smooth(ts, vs, tt, sg, residue) ==
    [k \in DOMAIN tt |-> float_smooth_at(ts, vs, tt[k], sg, residue)]

\* the permutations of 1..n, as functions
Reorderings(n) ==
    {f \in [1..n -> 1..n] : \A j, k \in 1..n : f[j] = f[k] => j = k}

\* a sum of three or more floats depends on the order of its terms in the
\* last place; a sum of two does not
reordered_residue(n, residue) == IF n >= 3 THEN ResidueSet ELSE {residue}

ResampleInit ==
    /\ WindIdle
    /\ GradIdle
    /\ DayIdle
    /\ FieldIdle
    /\ TrendIdle
    /\ UpwindIdle
    /\ DataIdle
    /\ mean_weights = <<>>
    /\ mean_deg = <<>>
    /\ \E n \in 1..MaxObs :
          /\ times \in [1..n -> ResampleTimeSet]
          /\ \/ /\ pc = "values"
                /\ values \in [1..n -> ResampleValueSet]
                /\ average_residue \in ResidueSet
                /\ directions = <<>>
                /\ sum_residue = 0
             \/ /\ pc = "directions"
                /\ directions \in [1..n -> ResampleDirectionSet]
                /\ sum_residue \in ResidueSet
                /\ values = <<>>
                /\ average_residue = 0
    /\ target_times \in {s \in SeqsUpTo(ResampleTargetSet, 0, MaxTargets) :
                            Increasing(s)}
    /\ sigma_minutes \in SigmaSet
    /\ smoothed = <<>>
    /\ smoothed_again = <<>>
    /\ PassIdle
    /\ HeapIdle
    /\ RenderIdle

\* gaussian_kernel_smooth(times, values, target_times, sigma_minutes)
ResampleValues ==
    /\ pc = "values"
    /\ smoothed' = float_gaussian_kernel_smooth(times, values, target_times,
                                                sigma_minutes, average_residue)
    /\ pc' = "values_once"
    /\ UNCHANGED <<times, values, target_times, sigma_minutes, wind_vars,
                   grad_vars, day_vars, field_vars, circ_vars, trend_vars,
                   upwind_vars, data_vars, resample_vars, pass_vars, heap_vars, render_vars>>

\* the same call once more
ResampleValuesAgain ==
    /\ pc \in {"values_once", "values_reordered"}
    /\ smoothed_again' = float_gaussian_kernel_smooth(times, values,
                             target_times, sigma_minutes, average_residue)
    /\ pc' = IF pc = "values_once" THEN "values_twice"
             ELSE "values_twice_reordered"
    /\ UNCHANGED <<smooth_vars, wind_vars, grad_vars, day_vars, field_vars,
                   circ_vars, trend_vars, upwind_vars, data_vars,
                   average_residue, pass_vars, heap_vars, render_vars>>

\* smooth_wind_direction(times, directions, target_times, sigma_minutes)
ResampleDirections ==
    /\ pc = "directions"
    /\ smoothed' = smooth_wind_direction(times, directions, target_times,
                                         sigma_minutes, sum_residue)
    /\ pc' = "directions_once"
    /\ UNCHANGED <<times, values, target_times, sigma_minutes, wind_vars,
                   grad_vars, day_vars, field_vars, circ_vars, trend_vars,
                   upwind_vars, data_vars, resample_vars, pass_vars, heap_vars, render_vars>>

\* the same call once more
ResampleDirectionsAgain ==
    /\ pc \in {"directions_once", "directions_reordered"}
    /\ smoothed_again' = smooth_wind_direction(times, directions, target_times,
                                               sigma_minutes, sum_residue)
    /\ pc' = IF pc = "directions_once" THEN "directions_twice"
             ELSE "directions_twice_reordered"
    /\ UNCHANGED <<smooth_vars, wind_vars, grad_vars, day_vars, field_vars,
                   circ_vars, trend_vars, upwind_vars, data_vars,
                   average_residue, pass_vars, heap_vars, render_vars>>

\* the caller applies one permutation, other than the identity, to the
\* times and to the observed values
Reorder ==
    /\ pc \in {"values_once", "directions_once"}
    /\ \E f \in Reorderings(Len(times)) :
          /\ \E j \in DOMAIN f : f[j] # j
          /\ times' = [j \in DOMAIN times |-> times[f[j]]]
          /\ values' = [j \in DOMAIN values |-> values[f[j]]]
          /\ directions' = [j \in DOMAIN directions |-> directions[f[j]]]
    /\ average_residue' \in IF pc = "values_once"
                            THEN reordered_residue(Len(times), average_residue)
                            ELSE {average_residue}
    /\ sum_residue' \in IF pc = "directions_once"
                        THEN reordered_residue(Len(times), sum_residue)
                        ELSE {sum_residue}
    /\ pc' = IF pc = "values_once" THEN "values_reordered"
             ELSE "directions_reordered"
    /\ UNCHANGED <<target_times, sigma_minutes, smoothed, wind_vars, grad_vars,
                   day_vars, field_vars, mean_weights, mean_deg, trend_vars,
                   upwind_vars, data_vars, smoothed_again, pass_vars, heap_vars, render_vars>>

ResampleNext ==
    \/ ResampleValues
    \/ ResampleValuesAgain
    \/ ResampleDirections
    \/ ResampleDirectionsAgain
    \/ Reorder

SpecResample == ResampleInit /\ [][ResampleNext]_vars

(***************************************************************************)
(* calculate_trend called on its own.                                      *)
(***************************************************************************)
MaxSeries == 5     \* points of one smoothed series
SeriesValueSet == 0..4
WindowSet == {1, 2, 3, 5}

TrendInit ==
    /\ pc = "trend"
    /\ WindIdle
    /\ GradIdle
    /\ DayIdle
    /\ FieldIdle
    /\ CircIdle
    /\ UpwindIdle
    /\ DataIdle
    /\ ResampleIdle
    /\ PassIdle
    /\ HeapIdle
    /\ RenderIdle
    /\ times = <<>>
    /\ target_times = <<>>
    /\ sigma_minutes = 0
    /\ smoothed = <<>>
    /\ values \in SeqsUpTo(SeriesValueSet, 0, MaxSeries)
    /\ window \in WindowSet
    /\ polyfit_residue \in ResidueSet
    /\ trends = <<>>

CalculateTrend ==
    /\ pc = "trend"
    /\ trends' = calculate_trend(values, window, polyfit_residue)
    /\ pc' = "trend_done"
    /\ UNCHANGED <<smooth_vars, wind_vars, grad_vars, day_vars, field_vars,
                   circ_vars, window, polyfit_residue, upwind_vars, data_vars, resample_vars, pass_vars, heap_vars, render_vars>>

TrendNext == CalculateTrend

SpecTrend == TrendInit /\ [][TrendNext]_vars

(***************************************************************************)
(* determine_upwind_sensor called on its own.                              *)
(***************************************************************************)
UpwindCoordSet == {0, 1, 2}

UpwindInit ==
    /\ pc = "upwind"
    /\ SmoothIdle
    /\ DayIdle
    /\ FieldIdle
    /\ CircIdle
    /\ TrendIdle
    /\ \E n \in 1..MaxSensors :
          /\ sensor_lons \in [1..n -> UpwindCoordSet]
          /\ sensor_lats \in [1..n -> UpwindCoordSet]
    /\ wind_u \in WindSet
    /\ wind_v \in WindSet
    /\ pollution_values = <<>>
    /\ lstsq_raises = FALSE
    /\ lstsq_residue = 0
    /\ gradient = <<>>
    /\ gradient_direction = 0
    /\ relationship = <<>>
    /\ upwindness = <<>>
    /\ DataIdle
    /\ ResampleIdle
    /\ PassIdle
    /\ HeapIdle
    /\ RenderIdle

DetermineUpwindSensor ==
    /\ pc = "upwind"
    /\ upwindness' = determine_upwind_sensor(sensor_lons, sensor_lats,
                                             wind_u, wind_v)
    /\ pc' = "upwind_done"
    /\ UNCHANGED <<smooth_vars, wind_vars, grad_vars, day_vars, field_vars,
                   circ_vars, trend_vars, data_vars, resample_vars, pass_vars, heap_vars, render_vars>>

UpwindNext == DetermineUpwindSensor

SpecUpwind == UpwindInit /\ [][UpwindNext]_vars

(***************************************************************************)
(* Claims about gaussian_kernel_smooth, checked under SpecSmooth.          *)
(***************************************************************************)
\* the observations strictly inside the 3-sigma window around t
Within(t) ==
    {j \in 1..Len(times) :
        /\ t - 3 * sigma_minutes < times[j]
        /\ times[j] < t + 3 * sigma_minutes}

RECURSIVE WithinNumerator(_, _)
WithinNumerator(t, n) ==
    IF n = 0 THEN 0
    ELSE WithinNumerator(t, n - 1)
         + (IF n \in Within(t)
            THEN np_exp_kernel(Abs(t - times[n]), sigma_minutes) * values[n]
            ELSE 0)

RECURSIVE WithinDenominator(_, _)
WithinDenominator(t, n) ==
    IF n = 0 THEN 0
    ELSE WithinDenominator(t, n - 1)
         + (IF n \in Within(t)
            THEN np_exp_kernel(Abs(t - times[n]), sigma_minutes)
            ELSE 0)

\* C1: for a target time with an observation strictly inside 3 sigma, the
\* result is the weighted sum of the values of exactly the observations
\* inside 3 sigma over the sum of exactly their weights; an observation at
\* or beyond 3 sigma enters neither sum.
C1_CutoffAverage ==
    pc \in {"smooth", "smooth_done"} =>
        \A k \in 1..Len(smoothed) :
            Within(target_times[k]) # {} =>
                /\ smoothed[k][1] = WithinNumerator(target_times[k], Len(times))
                /\ smoothed[k][2] = WithinDenominator(target_times[k], Len(times))
                /\ smoothed[k][2] > 0

\* an average was taken with one observation inside and one at or beyond
\* the cutoff, the excluded one carrying a non-zero weight
C1_Witness ==
    /\ pc = "smooth_done"
    /\ \E k \in 1..Len(smoothed) : \E j, m \in 1..Len(times) :
          /\ j \in Within(target_times[k])
          /\ m \notin Within(target_times[k])
          /\ np_exp_kernel(Abs(target_times[k] - times[m]), sigma_minutes) > 0
          /\ values[j] # values[m]

\* C2: a call on a non-empty series never fails and returns one value for
\* each target time; where no observation is inside 3 sigma the value is
\* that of an observation no other observation is nearer than.
C2_NearestFallback ==
    /\ pc = "smooth" => ENABLED SmoothNext
    /\ pc \in {"smooth", "smooth_done"} =>
          \A k \in 1..Len(smoothed) :
              /\ smoothed[k][2] > 0
              /\ Within(target_times[k]) = {} =>
                    \E j \in 1..Len(times) :
                        /\ smoothed[k] = <<values[j], 1>>
                        /\ \A m \in 1..Len(times) :
                              Abs(times[j] - target_times[k])
                                  <= Abs(times[m] - target_times[k])
    /\ pc = "smooth_done" => Len(smoothed) = Len(target_times)

\* the fallback chose between two observations at different distances
\* that carry different values
C2_Witness ==
    /\ pc = "smooth_done"
    /\ \E k \in 1..Len(smoothed) : \E j, m \in 1..Len(times) :
          /\ Within(target_times[k]) = {}
          /\ j < m
          /\ Abs(times[j] - target_times[k]) < Abs(times[m] - target_times[k])
          /\ values[j] # values[m]


(***************************************************************************)
(* Claims about analyze_wind_pollution_relationship, checked under         *)
(* SpecWind.                                                               *)
(***************************************************************************)
\* the compass sector of one degree, counted clockwise from north, that
\* holds the vector with east component u and north component v
CompassSector(u, v) ==
    CHOOSE b \in 0..359 :
        /\ u * math_cos(b) - v * math_sin(b) >= 0
        /\ u * math_cos(b + 1) - v * math_sin(b + 1) < 0

PrincipalBearing(u, v) ==
    CASE u = 0 /\ v > 0 -> 0
      [] u > 0 /\ v = u -> 45
      [] u > 0 /\ v = 0 -> 90
      [] u > 0 /\ v = -u -> 135
      [] u = 0 /\ v < 0 -> 180
      [] u < 0 /\ v = u -> 225
      [] u < 0 /\ v = 0 -> 270
      [] u < 0 /\ v = -u -> 315

IsPrincipal(u, v) == (u # 0 \/ v # 0) /\ (u = 0 \/ v = 0 \/ Abs(u) = Abs(v))

GradientIsZero == gradient = ZeroGradient

\* C9: the result is (0, 0) with fewer than 2 sensors, when lstsq raises
\* and when the fitted magnitude is below 1e-10; in every other case the
\* direction is in [0, 360) and the magnitude is positive.
C9_DirectionInRange ==
    pc = "gradient_done" =>
        /\ (Len(sensor_lons) < 2 \/ lstsq_raises) => GradientIsZero
        /\ ~GradientIsZero =>
              /\ ~float_lt_zero(gradient[1])
              /\ gradient[1][1] < 360
              /\ gradient[2][1] > 0

CoefSet == {-1, 0, 1}
OffsetSet == {0, 1}

\* the snapshot's values are exactly a * lon + b * lat + c
IsLinear(a, b, c) ==
    \A j \in 1..Len(sensor_lons) :
        pollution_values[j] = a * sensor_lons[j] + b * sensor_lats[j] + c

\* three of the sensors span a triangle
NotOnOneLine ==
    \E i, j, k \in 1..Len(sensor_lons) :
        (sensor_lons[j] - sensor_lons[i]) * (sensor_lats[k] - sensor_lats[i])
            # (sensor_lons[k] - sensor_lons[i]) * (sensor_lats[j] - sensor_lats[i])

\* atan2(a, b) as a compass bearing in [0, 360), for a, b in CoefSet
CompassBearing(a, b) == IF a = 0 /\ b = 0 THEN 0 ELSE PrincipalBearing(a, b)

RecoversPlane(a, b) ==
    /\ gradient[1][1] % 360 = CompassBearing(a, b)
    /\ RatEq(gradient[2], <<a * a + b * b, 1>>)

DistinctLocations ==
    \A i, j \in 1..Len(sensor_lons) :
        i # j => <<sensor_lons[i], sensor_lats[i]>> # <<sensor_lons[j], sensor_lats[j]>>

\* C10 as stated: for values that are an exact linear function
\* a * lon + b * lat + c of the coordinates (here: of two or more sensors
\* at distinct locations) the result is the bearing atan2(a, b), taken
\* modulo 360, and the magnitude sqrt(a^2 + b^2).
C10_LinearRecovered ==
    (/\ pc = "gradient_done"
     /\ ~lstsq_raises
     /\ Len(sensor_lons) >= 2
     /\ DistinctLocations) =>
        \A a, b \in CoefSet : \A c \in OffsetSet :
            IsLinear(a, b, c) => RecoversPlane(a, b)

\* C10 amended: the same, for sensors that are not all on one line.
C10_LinearRecoveredOffOneLine ==
    (pc = "gradient_done" /\ ~lstsq_raises /\ NotOnOneLine) =>
        \A a, b \in CoefSet : \A c \in OffsetSet :
            IsLinear(a, b, c) => RecoversPlane(a, b)

\* three sensors in a triangle carried a field rising due east
C10_Witness ==
    /\ pc = "gradient_done"
    /\ ~lstsq_raises
    /\ NotOnOneLine
    /\ IsLinear(1, 0, 1)
    /\ gradient = <<<<90, 0>>, <<1, 1>>>>

(***************************************************************************)
(* Claims about process_day and process_day_enhanced, checked under        *)
(* SpecDay.                                                                *)
(***************************************************************************)
DayDone == pc \in {"process_day_done", "process_day_enhanced_done"}

DayRaised == pc \in {"process_day_raised", "process_day_enhanced_raised"}

\* the observations of the target date with a pollution reading and a
\* sensor of known coordinates
ValidRows == dropna(on_target_date(df), sensor_coords)

\* the rows the finished call built its series from
KeptRows ==
    IF pc \in {"process_day_done", "process_day_raised"}
    THEN day_rows(df, sensor_coords)
    ELSE ValidRows

RowCount(rows, s) == Cardinality({j \in DOMAIN rows : rows[j].sensor_id = s})

SensorsWithThree(rows) == {s \in SensorIds : RowCount(rows, s) >= 3}

\* the sensors of frame f are exactly the sensors of S, each once
FrameShows(f, S) ==
    /\ Len(f.sensors) = Cardinality(S)
    /\ {<<f.sensors[j].lat, f.sensors[j].lon>> : j \in DOMAIN f.sensors}
          = {sensor_coords[s] : s \in S}
    /\ pc = "process_day_done" =>
          {f.sensors[j].sensor_id : j \in DOMAIN f.sensors} = S

\* C3 (as stated): in every frame returned by process_day and
\* process_day_enhanced the sensors are exactly the sensors with at least 3
\* valid observations on the day, and the call fails only for a missing
\* column.
C3_SensorsWithThreeValid ==
    /\ DayRaised => PollutionColumn \notin columns
    /\ DayDone =>
          \A i \in DOMAIN frames : FrameShows(frames[i], SensorsWithThree(ValidRows))

\* C3 (amended): in every frame returned by process_day and
\* process_day_enhanced the sensors are exactly the sensors with at least 3
\* rows left after the row filters of the function (missing pollution or
\* coordinates; in process_day also the P99 cap, the spike filter and the
\* wind-speed cap); a sensor with fewer rows is in no frame, and the call
\* fails only for a missing column.
C3_SensorsWithThreeKept ==
    /\ DayRaised => PollutionColumn \notin columns
    /\ DayDone =>
          \A i \in DOMAIN frames : FrameShows(frames[i], SensorsWithThree(KeptRows))

\* process_day returned frames that show sensor B and leave out sensor A,
\* which has 3 valid observations of which the P99 cap removed one
C3_Witness ==
    /\ pc = "process_day_done"
    /\ frames # <<>>
    /\ RowCount(ValidRows, "A") = 3
    /\ RowCount(KeptRows, "A") = 2
    /\ \A j \in DOMAIN ValidRows : ValidRows[j].wind.isna
    /\ \A i \in DOMAIN frames : FrameShows(frames[i], {"B"})

\* C4 (as stated): the timestamps of the produced frames are the grid of
\* spacing frame_interval from min_time rounded up to a multiple of
\* frame_interval to max_time rounded down to a multiple of frame_interval.
C4_GridOnIntervalMultiples ==
    (DayDone /\ SensorsWithThree(KeptRows) # {}) =>
        LET interval == Ticks(frame_interval_minutes)
        IN [i \in DOMAIN frames |-> frames[i].timestamp]
             = pd_date_range(Timestamp_ceil(time_min(KeptRows), interval),
                             Timestamp_floor(time_max(KeptRows), interval),
                             interval)

GridEmpty ==
    \/ KeptRows = <<>>
    \/ Timestamp_ceil(time_min(KeptRows), FiveMin)
          > Timestamp_floor(time_max(KeptRows), FiveMin)

\* C5: when no sensor is eligible after filtering, or when the first time
\* rounded up is later than the last time rounded down (no output time
\* point), process_day and process_day_enhanced, given the columns they
\* read, return an empty list of frames and do not raise.
C5_EmptyFrameList ==
    (PollutionColumn \in columns /\ pc # "day"
        /\ (SensorsWithThree(KeptRows) = {} \/ GridEmpty))
    => (DayDone /\ frames = <<>>)

\* process_day_enhanced returned no frame for a day on which a sensor is
\* eligible and all observations lie inside one 5-minute slot
C5_Witness ==
    /\ pc = "process_day_enhanced_done"
    /\ SensorsWithThree(KeptRows) # {}
    /\ GridEmpty
    /\ frames = <<>>

\* a snapshot with one sensor, with all sensors at one place, or without wind
Degenerate(f) ==
    \/ Len(f.sensors) = 1
    \/ \A j, k \in DOMAIN f.sensors :
          /\ f.sensors[j].lon = f.sensors[k].lon
          /\ f.sensors[j].lat = f.sensors[k].lat
    \/ (f.wind_u = 0 /\ f.wind_v = 0)

\* C8 (as stated): a frame that process_day_enhanced assembles for a
\* degenerate snapshot carries the neutral outputs: zero gradient, zero
\* wind-pollution alignment and zero upwindness for every sensor.
C8_DegenerateNeutral ==
    pc = "process_day_enhanced_done" =>
        \A i \in DOMAIN frames :
            Degenerate(frames[i]) =>
                /\ frames[i].pollution_gradient_direction = <<0, 0>>
                /\ frames[i].wind_pollution_alignment = 0
                /\ \A j \in DOMAIN frames[i].sensors :
                      frames[i].sensors[j].upwindness[1] = 0


(***************************************************************************)
(* Claims about interpolate_pollution_field, checked under SpecField.      *)
(***************************************************************************)
FieldDone == pc = "field_done"

FieldCells == {<<i, j>> : i \in 1..Len(field), j \in 1..resolution}

\* the band 0.5 * min(values) .. 1.5 * max(values)
BandLow == Exact(np_min(pollution_values), 2)
BandHigh == Exact(3 * np_max(pollution_values), 2)

InBand(c) == CellLe(BandLow, c) /\ CellLe(c, BandHigh)

\* what rbf(grid_points) returned for the cell, before the clip
RbfRaw(c) == Exact(rbf_output.base + rbf_output.step * (c[1] + c[2] - 2), 1)

\* C11 as stated: for every set of sensor values, every cell of the
\* returned field lies within 0.5 * min(values) .. 1.5 * max(values), on
\* the RBF path and on the IDW path
C11_FieldInBand ==
    FieldDone => \A c \in FieldCells : InBand(field[c[1]][c[2]])

\* C11 amended: when no sensor value is negative, every cell of the
\* returned field lies within 0.5 * min(values) .. 1.5 * max(values), on
\* the RBF path and on the IDW path
C11_FieldInBandNonNegative ==
    (FieldDone /\ \A k \in DOMAIN pollution_values : pollution_values[k] >= 0)
        => \A c \in FieldCells : InBand(field[c[1]][c[2]])

\* a field of the RBF path in which the clip changed a cell, the sensor
\* values not negative and not all equal
C11_Witness ==
    /\ FieldDone
    /\ field_path = "rbf"
    /\ \A k \in DOMAIN pollution_values : pollution_values[k] >= 0
    /\ np_min(pollution_values) < np_max(pollution_values)
    /\ \E c \in FieldCells : ~InBand(RbfRaw(c))
    /\ \E c \in FieldCells : InBand(RbfRaw(c))

\* the grids the call builds from extent and resolution
FieldGrids ==
    np_meshgrid(np_linspace(extent[1], extent[2], resolution),
                np_linspace(extent[3], extent[4], resolution))

\* C12: when the RBF fit or evaluation fails, the call does not raise and
\* returns the resolution x resolution field of inverse-distance weighting
\* over the same grid
C12_RbfFailureFallsBackToIdw ==
    (pc # "field" /\ RBFInterpolator_raises(sensor_lons, sensor_lats, rbf_raises))
        => /\ FieldDone
           /\ field_path = "idw"
           /\ Len(field) = resolution
           /\ \A i \in 1..Len(field) : Len(field[i]) = resolution
           /\ field = idw_interpolation(sensor_lons, sensor_lats, pollution_values,
                          FieldGrids[1], FieldGrids[2], grid_scale(resolution),
                          idw_residue)

\* the fit failed for three sensors at three locations, on a 3 x 3 grid
C12_Witness ==
    /\ FieldDone
    /\ rbf_raises
    /\ Len(sensor_lons) = 3
    /\ Cardinality({<<sensor_lons[k], sensor_lats[k]>> : k \in 1..3}) = 3
    /\ resolution = 3

SensorLocations ==
    {<<sensor_lons[k], sensor_lats[k]>> : k \in DOMAIN sensor_lons}

\* the cell is the cell value v exactly
IsExactly(c, v) == c.num = v * c.den /\ c.ulp = 0

\* the cell is the value v or a floating-point neighbour of it
IsRoundingOf(c, v) == c.num = v * c.den

\* the squared distances from cell c of the grid to the sensors
CellDistances(c) ==
    distances_squared(sensor_lons, sensor_lats, FieldGrids[1][c[1]][c[2]],
                      FieldGrids[2][c[1]][c[2]], grid_scale(resolution))

\* C13 as stated: with fewer than 2 distinct sensor locations the field is
\* produced by IDW, and with exactly one sensor every cell equals that
\* sensor's value
C13_DegenerateIdwExactValue ==
    (pc # "field" /\ Cardinality(SensorLocations) < 2)
        => /\ FieldDone
           /\ field_path = "idw"
           /\ Len(sensor_lons) = 1
                => \A c \in FieldCells :
                      IsExactly(field[c[1]][c[2]], pollution_values[1])

\* C13 amended: with fewer than 2 distinct sensor locations the field is
\* produced by IDW; with exactly one sensor a cell at the sensor equals the
\* sensor's value and every other cell equals it up to the rounding of
\* the quotient sum(w * v) / sum(w)
C13_DegenerateIdwRoundedValue ==
    (pc # "field" /\ Cardinality(SensorLocations) < 2)
        => /\ FieldDone
           /\ field_path = "idw"
           /\ Len(sensor_lons) = 1
                => \A c \in FieldCells :
                      /\ IsRoundingOf(field[c[1]][c[2]], pollution_values[1])
                      /\ np_min(CellDistances(c)) = 0
                            => IsExactly(field[c[1]][c[2]], pollution_values[1])

\* one sensor, a 3 x 3 grid, a quotient that is rounded
C13_Witness ==
    /\ FieldDone
    /\ Len(sensor_lons) = 1
    /\ resolution = 3
    /\ idw_residue # 0
    /\ pollution_values[1] # 0
    /\ \E c \in FieldCells : field[c[1]][c[2]].ulp # 0

\* C14: in idw_interpolation a cell at distance below 1e-10 from its
\* nearest sensor takes exactly the value of a sensor at that distance,
\* every other cell takes the average of all sensor values weighted by
\* 1 / distance^2, and no cell divides by zero
C14_IdwCells ==
    (FieldDone /\ field_path = "idw")
        => \A c \in FieldCells :
              LET d2 == CellDistances(c)
                  cell == field[c[1]][c[2]]
                  \* sum of 1 / d2[k] and of values[k] / d2[k], both
                  \* multiplied by the product of all d2
                  sum_w == SumSeq([k \in DOMAIN d2 |-> ProdSet(d2, DOMAIN d2 \ {k})])
                  sum_wv == SumSeq([k \in DOMAIN d2 |->
                                ProdSet(d2, DOMAIN d2 \ {k}) * pollution_values[k]])
              IN IF \E k \in DOMAIN d2 : d2[k] = 0
                 THEN \E k \in DOMAIN d2 :
                         /\ d2[k] = 0
                         /\ \A j \in 1..(k - 1) : d2[j] # 0
                         /\ IsExactly(cell, pollution_values[k])
                 ELSE /\ cell.den > 0
                      /\ sum_w > 0
                      /\ cell.num * sum_w = sum_wv * cell.den

\* an IDW field over sensors with different values in which one cell lies
\* on a sensor and another cell lies on none
C14_Witness ==
    /\ FieldDone
    /\ field_path = "idw"
    /\ Len(sensor_lons) >= 2
    /\ np_min(pollution_values) < np_max(pollution_values)
    /\ \E c \in FieldCells : np_min(CellDistances(c)) = 0
    /\ \E c \in FieldCells : np_min(CellDistances(c)) > 0

(***************************************************************************)
(* Claims about circular_mean and smooth_wind_direction, checked under     *)
(* SpecCircular.                                                           *)
(***************************************************************************)
\* the observations j and k lie at theta and 360 - theta, 0 < theta < 90
SymmetricAboutNorth(j, k) ==
    /\ 0 < directions[j]
    /\ directions[j] < 90
    /\ directions[k] = 360 - directions[j]

\* target time t weighs exactly two observations, equally, and they are
\* symmetric about north
SymmetricPairAt(t) ==
    /\ mask(times, t, sigma_minutes) = {1, 2}
    /\ weights(times, t, sigma_minutes)[1] = weights(times, t, sigma_minutes)[2]
    /\ SymmetricAboutNorth(1, 2) \/ SymmetricAboutNorth(2, 1)

\* C15: for two directions symmetric about north with equal weights,
\* circular_mean and smooth_wind_direction yield 0 (mod 360), not 180
C15_NoWraparound ==
    /\ (/\ pc = "circular_mean_done"
        /\ Len(directions) = 2
        /\ mean_weights[1] = mean_weights[2]
        /\ SymmetricAboutNorth(1, 2) \/ SymmetricAboutNorth(2, 1))
          => mean_deg[1] % 360 = 0
    /\ pc = "smooth_wind_direction_done"
          => \A k \in DOMAIN target_times :
                SymmetricPairAt(target_times[k]) => smoothed[k][1] % 360 = 0

\* smooth_wind_direction averaged 10 and 350 degrees with equal weights
C15_Witness ==
    /\ pc = "smooth_wind_direction_done"
    /\ directions = <<350, 10>>
    /\ \E k \in DOMAIN target_times : SymmetricPairAt(target_times[k])

\* the float angle a lies in [0, 360)
InCircle(a) == ~float_lt_zero(a) /\ a[1] < 360

\* C16 as stated: every value returned by smooth_wind_direction lies in
\* [0, 360), from the weighted circular mean and from the nearest-neighbour
\* fallback
C16_DirectionInCircle ==
    pc = "smooth_wind_direction_done"
        => \A k \in DOMAIN smoothed : InCircle(smoothed[k])

(***************************************************************************)
(* Claims about calculate_trend, checked under SpecTrend.                  *)
(***************************************************************************)
TrendDone == pc = "trend_done"

\* the indices [i - w/2, i + w/2] clipped to the bounds of the series
TrendWindow(i) ==
    {j \in 1..Len(values) : i - window \div 2 <= j /\ j <= i + window \div 2}

\* t is the least-squares slope of the values against their position
\* within the index set W: it solves the normal equation of the line fit
IsLeastSquaresSlope(t, W) ==
    LET first == CHOOSE j \in W : \A k \in W : j <= k
        n == Cardinality(W)
        Sx == SumSet([j \in W |-> j - first], W)
        Sxx == SumSet([j \in W |-> (j - first) * (j - first)], W)
        Sy == SumSet([j \in W |-> values[j]], W)
        Sxy == SumSet([j \in W |-> (j - first) * values[j]], W)
    IN /\ t[2] # 0
       /\ t[1] * (n * Sxx - Sx * Sx) = t[2] * (n * Sxy - Sx * Sy)

\* the trend t is 0.0
IsZeroTrend(t) == t[1] = 0 /\ t[3] = 0

\* what the claims say about index i
TrendOfWindow(i) ==
    IF Cardinality(TrendWindow(i)) >= 2
    THEN IsLeastSquaresSlope(trends[i], TrendWindow(i))
    ELSE IsZeroTrend(trends[i])

\* C17 as stated: for every series and every index i, the trend at i is
\* the least-squares slope over the window [i - w/2, i + w/2] clipped to
\* the array when the window holds at least 2 points, otherwise 0
C17_TrendIsWindowSlope ==
    TrendDone => /\ Len(trends) = Len(values)
                 /\ \A i \in DOMAIN values : TrendOfWindow(i)

\* C17 amended: for a series of at least 3 points the trend at i is the
\* least-squares slope over the clipped window when it holds at least 2
\* points, otherwise 0; for a series of fewer than 3 points the trend is
\* 0 at every index
C17_TrendIsWindowSlopeFromThree ==
    TrendDone => /\ Len(trends) = Len(values)
                 /\ \A i \in DOMAIN values :
                       IF Len(values) < 3 THEN IsZeroTrend(trends[i])
                       ELSE TrendOfWindow(i)

\* a series of 5 points with a window of 5: windows clipped at both ends
\* and a full one in the middle, the values not on a line
C17_Witness ==
    /\ TrendDone
    /\ Len(values) = 5
    /\ window = 5
    /\ values[2] - values[1] # values[3] - values[2]
    /\ trends[3][1] # 0

\* the series is exactly linear in the index with slope s
LinearSeries(s) ==
    \A j \in 1..(Len(values) - 1) : values[j + 1] - values[j] = s

\* C18 as stated: for a series of at least 3 points that is exactly linear
\* in the index with slope s, calculate_trend returns s at every index
C18_LinearTrendExact ==
    (TrendDone /\ Len(values) >= 3 /\ window >= 2)
        => \A s \in -4..4 :
              LinearSeries(s)
                 => \A i \in DOMAIN trends :
                       trends[i][1] = s * trends[i][2] /\ trends[i][3] = 0

\* C18 amended: for such a series calculate_trend returns, at every
\* index, s up to the rounding of the line fit: exactly 0 for a series of
\* zeros, positive for an increasing series
C18_LinearTrendRounded ==
    (TrendDone /\ Len(values) >= 3 /\ window >= 2)
        => \A s \in -4..4 :
              LinearSeries(s)
                 => \A i \in DOMAIN trends :
                       /\ trends[i][2] > 0
                       /\ trends[i][1] = s * trends[i][2]
                       /\ (\A j \in DOMAIN values : values[j] = 0)
                             => IsZeroTrend(trends[i])

\* an increasing linear series of 5 points, window 5, a rounded fit
C18_Witness ==
    /\ TrendDone
    /\ Len(values) = 5
    /\ window = 5
    /\ LinearSeries(1)
    /\ polyfit_residue # 0

(***************************************************************************)
(* Claims about determine_upwind_sensor, checked under SpecUpwind.         *)
(***************************************************************************)
UpwindDone == pc = "upwind_done"

Sensors == DOMAIN sensor_lons

\* how far sensor a lies from sensor b in the direction the wind blows
\* toward, times the wind speed
Downwind(a, b) ==
      (sensor_lons[a] - sensor_lons[b]) * wind_u
    + (sensor_lats[a] - sensor_lats[b]) * wind_v

\* the projection of sensor j's position relative to the centroid onto the
\* wind, times the number of sensors and the wind speed
CentroidProjection(j) ==
    SumSet([k \in Sensors |-> Downwind(j, k)], Sensors)

MaxAbsProjection ==
    CHOOSE m \in {Abs(CentroidProjection(j)) : j \in Sensors} :
        \A j \in Sensors : m >= Abs(CentroidProjection(j))

SpreadAlongWind == \E a, b \in Sensors : Downwind(a, b) # 0

Coincident ==
    \A a, b \in Sensors : /\ sensor_lons[a] = sensor_lons[b]
                          /\ sensor_lats[a] = sensor_lats[b]

\* C19: with wind that is not near zero and sensors spread along the wind
\* direction, each score is the negated centroid-relative projection
\* divided by the largest absolute projection; every score lies in
\* [-1, 1], some score has absolute value 1, and a sensor further downwind
\* has a lower score
C19_UpwindScores ==
    (UpwindDone /\ ~is_calm(wind_u, wind_v) /\ SpreadAlongWind)
        => /\ DOMAIN upwindness = Sensors
           /\ \A j \in Sensors :
                 /\ upwindness[j][2] > 0
                 /\ upwindness[j][1] * MaxAbsProjection
                       = -CentroidProjection(j) * upwindness[j][2]
                 /\ Abs(upwindness[j][1]) <= upwindness[j][2]
           /\ \E j \in Sensors : Abs(upwindness[j][1]) = upwindness[j][2]
           /\ \A a, b \in Sensors :
                 Downwind(a, b) > 0
                    => upwindness[a][1] * upwindness[b][2]
                          < upwindness[b][1] * upwindness[a][2]

\* three sensors at three different distances along a wind that is not
\* parallel to an axis, scored
C19_Witness ==
    /\ UpwindDone
    /\ Len(sensor_lons) = 3
    /\ wind_u = 1000
    /\ wind_v = -10
    /\ Downwind(1, 2) > 0
    /\ Downwind(2, 3) > 0
    /\ upwindness[3][1] = upwindness[3][2]
    /\ Abs(upwindness[1][1]) < upwindness[1][2]

\* C20: with wind near zero, with one sensor, or with all sensors at one
\* location, every score is 0 and no quotient has a zero divisor
C20_NeutralScores ==
    (UpwindDone /\ (is_calm(wind_u, wind_v) \/ Len(sensor_lons) = 1 \/ Coincident))
        => /\ DOMAIN upwindness = Sensors
           /\ \A j \in Sensors : /\ upwindness[j][2] # 0
                                 /\ upwindness[j][1] = 0

\* several sensors at one location off the origin under a strong wind
C20_Witness ==
    /\ UpwindDone
    /\ Len(sensor_lons) >= 2
    /\ Coincident
    /\ sensor_lons[1] # 0
    /\ ~is_calm(wind_u, wind_v)
    /\ \A j \in Sensors : upwindness[j] = <<0, 1>>

\* one sensor under a strong wind, and any sensors under a calm wind
C20_WitnessSingle ==
    /\ UpwindDone
    /\ Len(sensor_lons) = 1
    /\ ~is_calm(wind_u, wind_v)
    /\ upwindness = <<<<0, 1>>>>

C20_WitnessCalm ==
    /\ UpwindDone
    /\ is_calm(wind_u, wind_v)
    /\ wind_u # 0
    /\ SpreadAlongWind
    /\ \A j \in Sensors : upwindness[j] = <<0, 1>>

(***************************************************************************)
(* Claims about input shape errors, checked under SpecInput.               *)
(***************************************************************************)
MissingColumn == columns # AllColumns

NoRowsForDay == Len(on_target_date(df)) = 0

NoValidRows == Len(dropna(on_target_date(df), sensor_coords)) = 0

InputShapeError == MissingColumn \/ NoRowsForDay \/ NoValidRows

\* the call failed: an exception with a message, and no result
Failed ==
    /\ pc \in {"process_data_raised", "process_day_raised",
               "process_day_enhanced_raised"}
    /\ error # ""
    /\ processed_data = <<>>
    /\ frames = <<>>

\* the call returned
Returned ==
    /\ pc \in {"process_data_done", "process_day_done",
               "process_day_enhanced_done"}
    /\ error = ""

FrameBuilderCalled ==
    pc \in {"process_day_raised", "process_day_enhanced_raised",
            "process_day_done", "process_day_enhanced_done"}

ProcessDataCalled == pc \in {"process_data_raised", "process_data_done"}

\* C21 as stated: a missing required column, no rows for the requested
\* day, and zero valid rows after dropping rows with missing pollution or
\* coordinates each make process_data, process_day and
\* process_day_enhanced fail with a message and without a result
C21_InputShapeErrorsFail ==
    (pc # "day" /\ InputShapeError) => Failed

\* C21 amended: process_data fails with a message and without a result in
\* each of the three cases; process_day and process_day_enhanced fail
\* only for a missing column (the timestamp column always, another column
\* when the day has rows) and return an empty frame list for a day
\* without rows or without valid rows
C21_InputShapeErrorsByCall ==
    /\ ProcessDataCalled => IF InputShapeError THEN Failed ELSE Returned
    /\ FrameBuilderCalled =>
          IF "timestamp" \notin columns \/ (MissingColumn /\ ~NoRowsForDay)
          THEN Failed
          ELSE /\ Returned
               /\ (NoRowsForDay \/ NoValidRows) => frames = <<>>

\* process_data has failed on a day that has rows and every column, none
\* of the rows valid
C21_Witness ==
    /\ pc = "process_data_raised"
    /\ ~MissingColumn
    /\ ~NoRowsForDay
    /\ NoValidRows
    /\ error = "ValueError: No valid data after filtering (missing pollution or coordinates)"

(***************************************************************************)
(* Claims about the resamplers, checked under SpecResample.                *)
(***************************************************************************)
\* every value of the series is c
ConstantSeries(c) == \A j \in DOMAIN values : values[j] = c

ValuesSmoothed ==
    pc \in {"values_once", "values_twice", "values_reordered",
            "values_twice_reordered"}

\* C22 as stated: for a series whose values all equal one constant c,
\* gaussian_kernel_smooth returns c at every target time, on the
\* weighted-average path and on the nearest-neighbour path
C22_ConstantExact ==
    ValuesSmoothed =>
        \A c \in ResampleValueSet :
            ConstantSeries(c) =>
                \A k \in DOMAIN smoothed :
                    /\ smoothed[k][1] = c * smoothed[k][2]
                    /\ smoothed[k][3] = 0

\* C22 amended: for such a series gaussian_kernel_smooth returns c exactly
\* on the nearest-neighbour path and for c = 0 or 1, and c up to the
\* rounding of the quotient sum(c * w) / sum(w) on the weighted-average path
C22_ConstantRounded ==
    ValuesSmoothed =>
        \A c \in ResampleValueSet :
            ConstantSeries(c) =>
                /\ Len(smoothed) = Len(target_times)
                /\ \A k \in DOMAIN smoothed :
                      /\ smoothed[k][2] > 0
                      /\ smoothed[k][1] = c * smoothed[k][2]
                      /\ (c \in {0, 1} \/ mask(times, target_times[k], sigma_minutes) = {})
                            => smoothed[k][3] = 0

\* a constant series of two observations smoothed at one target time by
\* the weighted average and at another by the nearest observation
C22_Witness ==
    /\ pc = "values_once"
    /\ Len(values) = 2
    /\ ConstantSeries(5)
    /\ Len(smoothed) = 2
    /\ Cardinality(mask(times, target_times[1], sigma_minutes)) = 2
    /\ mask(times, target_times[2], sigma_minutes) = {}
    /\ smoothed[2] = <<5, 1, 0>>

\* the arguments of a resampler call
ResamplerArguments == <<times, values, directions, target_times, sigma_minutes>>

\* a step that is a call of a resampler
ResamplerCall ==
    pc' \in {"values_once", "values_twice", "values_twice_reordered",
             "directions_once", "directions_twice",
             "directions_twice_reordered"}

SameFloats(a, b) ==
    /\ Len(a) = Len(b)
    /\ \A k \in DOMAIN a :
          IF Len(a[k]) = 3
          THEN a[k][1] * b[k][2] = b[k][1] * a[k][2] /\ a[k][3] = b[k][3]
          ELSE a[k] = b[k]

Reordered == pc \in {"values_twice_reordered", "directions_twice_reordered"}

\* at target time t the fallback finds two observations equally near that
\* carry different data
NearestTie(t) ==
    /\ mask(times, t, sigma_minutes) = {}
    /\ \E j, k \in DOMAIN times :
          /\ Abs(times[j] - t) = Abs(times[k] - t)
          /\ \A i \in DOMAIN times : Abs(times[j] - t) <= Abs(times[i] - t)
          /\ IF values # <<>> THEN values[j] # values[k]
             ELSE directions[j] # directions[k]

\* C25: applying one permutation to times and values leaves the result of
\* gaussian_kernel_smooth and of smooth_wind_direction unchanged at every
\* target time, on the weighted-average path and on the nearest-neighbour
\* path, two equally near observations included
C25_OrderIndependent ==
    Reordered => SameFloats(smoothed, smoothed_again)

\* what holds instead: with at most two observations inside the cutoff the
\* result changes with the order only at a target time whose nearest
\* observations are tied
C25_OrderIndependentButTies ==
    (Reordered /\ Len(times) <= 2)
        => /\ Len(smoothed) = Len(smoothed_again)
           /\ \A k \in DOMAIN smoothed :
                 NearestTie(target_times[k])
                    \/ SameFloats(<<smoothed[k]>>, <<smoothed_again[k]>>)

\* the least and the greatest observed value
MinValue == CHOOSE v \in {values[j] : j \in DOMAIN values} :
                \A j \in DOMAIN values : v <= values[j]
MaxValue == CHOOSE v \in {values[j] : j \in DOMAIN values} :
                \A j \in DOMAIN values : v >= values[j]

\* the float x lies in [MinValue, MaxValue]
InObservedRange(x) ==
    /\ MinValue * x[2] <= x[1]
    /\ x[1] <= MaxValue * x[2]
    /\ x[1] = MinValue * x[2] => x[3] >= 0
    /\ x[1] = MaxValue * x[2] => x[3] <= 0

\* C29 as stated: every value returned by gaussian_kernel_smooth lies
\* between the minimum and the maximum of the input values
C29_WithinObservedRange ==
    ValuesSmoothed => \A k \in DOMAIN smoothed : InObservedRange(smoothed[k])

\* C29 amended: a value copied from the nearest observation is one of the
\* input values; a weighted average lies between the minimum and the
\* maximum of the input values up to the rounding of its quotient
C29_WithinObservedRangeRounded ==
    ValuesSmoothed =>
        \A k \in DOMAIN smoothed :
            /\ smoothed[k][2] > 0
            /\ MinValue * smoothed[k][2] <= smoothed[k][1]
            /\ smoothed[k][1] <= MaxValue * smoothed[k][2]
            /\ mask(times, target_times[k], sigma_minutes) = {}
                  => /\ smoothed[k][3] = 0
                     /\ \E j \in DOMAIN values : smoothed[k] = <<values[j], 1, 0>>

\* a weighted average of two different values, strictly between them
C29_Witness ==
    /\ pc = "values_once"
    /\ Len(values) = 2
    /\ values[1] # values[2]
    /\ \E k \in DOMAIN smoothed :
          /\ Cardinality(mask(times, target_times[k], sigma_minutes)) = 2
          /\ times[1] # times[2]
          /\ MinValue * smoothed[k][2] < smoothed[k][1]
          /\ smoothed[k][1] < MaxValue * smoothed[k][2]

(***************************************************************************)
(* Claims about the order of the loop passes, checked under                *)
(* SpecInterleaved.                                                        *)
(***************************************************************************)
\* the frames of the sequential run
SequentialFrames ==
    process_day_enhanced(df, columns, sensor_coords, frame_interval_minutes,
                         smoothing_sigma_minutes).frames

\* C23 as stated: evaluating the passes in any order yields the same
\* frames as the sequential run, because no pass reads the output of
\* another sensor's or another time point's pass
C23_AnyOrderSameFrames ==
    pc = "passes_done" => frames = SequentialFrames

\* C23 amended: a smoothing pass reads no output of another pass, so its
\* value is that of the sequential run in any order; a trend pass reads
\* the smoothed values of its sensor over its window and a frame pass reads
\* the smoothed values and trends of every sensor at its index, and every
\* order in which each pass runs after the passes it reads yields the
\* frames of the sequential run
C23_DependencyOrderSameFrames ==
    /\ \A q \in done :
          q[1] = "smooth" =>
             sensor_data[q[2]].pollution[q[3]]
                = smooth_pass(pass_rows, frame_times, smoothing_sigma_minutes,
                              sensor_data[q[2]].sensor, q[3])
    /\ (pc = "passes_done" /\ in_order) => frames = SequentialFrames

\* every pass of a day of three frame times has run, each after the passes
\* it reads, and the trends are not all zero
C23_Witness ==
    /\ pc = "passes_done"
    /\ in_order
    /\ Len(frames) = 3
    /\ \E i \in DOMAIN frames : frames[i].sensors[1].trend[1] # 0

\* ---- C26 ----
CallerTable == heap[caller_df]
AppendedFrames == [k \in DOMAIN frames |-> Deref(heap, frames[k])]
StepwiseReturned == pc \in {at_return(b) : b \in FrameBuilders}

\* the frames of the stepwise call are those of the call taken as a whole
StepwiseAsWhole ==
    /\ pc = at_return("process_day") =>
          AppendedFrames = process_day(df, columns, sensor_coords,
                               frame_interval_minutes,
                               smoothing_sigma_minutes).frames
    /\ pc = at_return("process_day_enhanced") =>
          AppendedFrames = process_day_enhanced(df, columns, sensor_coords,
                               frame_interval_minutes,
                               smoothing_sigma_minutes).frames

\* C26: on every step of process_day and of process_day_enhanced the table of
\* the caller keeps its rows and its columns (the filters and the derived
\* columns go to a copy), and every frame already appended to the result list
\* keeps its content when a later frame is built.
C26_CallerTableAndFramesKept ==
    /\ [](heap # <<>> => CallerTable = Table(df, columns))
    /\ [][/\ CallerTable' = CallerTable
          /\ \A k \in DOMAIN frames :
                /\ k \in DOMAIN frames'
                /\ AppendedFrames'[k] = AppendedFrames[k]]_vars

\* a call has returned two frames or more built from a copy that has the
\* derived columns the table of the caller lacks
C26_Witness ==
    /\ StepwiseReturned
    /\ Len(frames) >= 2
    /\ local_df # caller_df
    /\ "pollution" \in heap[local_df].columns
    /\ "pollution" \notin CallerTable.columns
    /\ Len(CallerTable.rows) > Len(heap[local_df].rows)

\* ---- C27 ----
RECURSIVE frames_before(_)
\* the number of frames of the dates before position d
frames_before(d) ==
    IF d <= 1 THEN 0 ELSE frames_before(d - 1) + frames_per_date[d - 1]

FileNumbers == DOMAIN files
InDayLoop == pc \in {at_day_loop(p) : p \in RenderPrograms}
InRenderAllFrames == pc \in {at_render_all_frames(p) : p \in RenderPrograms}
RenderDone == pc \in {at_total_frames(p) : p \in RenderPrograms}

\* between two days the files are numbered 1..frame_count - 1
ContiguousFiles ==
    (InDayLoop \/ RenderDone) =>
        /\ FileNumbers = 1..(frame_count - 1)
        /\ frame_count - 1 = frames_before(date_index)

\* the frame i of a date is in the file start + i, start being the number
\* after the frames of the dates before, and no file is written twice
OneWriterPerFile ==
    \A n \in DOMAIN files :
       /\ files[n].writes = 1
       /\ \A c \in files[n].content : n = 1 + frames_before(c[1]) + c[2]

\* the indices of the frames of the date d that are in a file
written_of(d) == {c[2] : c \in {x \in UNION {files[n].content : n \in DOMAIN files} :
                                  x[1] = d}}

\* the recorded ranges: as long as the count, adjacent, the first from 1,
\* and no entry for a date without frames
DayRanges ==
    /\ \A k \in DOMAIN day_stats :
          /\ day_stats[k].end - day_stats[k].start + 1 = day_stats[k].count
          /\ day_stats[k].count = frames_per_date[day_stats[k].date]
          /\ day_stats[k].count > 0
          /\ day_stats[k].start = IF k = 1 THEN 1 ELSE day_stats[k - 1].end + 1
    /\ (InDayLoop \/ RenderDone) =>
          Len(day_stats) = Cardinality({d \in 1..(date_index - 1) :
                                           frames_per_date[d] > 0})

\* C27: the frame files of a render of several days are numbered 1..total
\* without a gap; a date without frames takes no number and writes no file;
\* every recorded range [start, end] has end - start + 1 = count and starts
\* right after the range before; in render_all_frames the frame i goes to the
\* file start_frame + i, written once, whatever the interleaving of the
\* threads, and start_frame + total is returned.
C27_ContiguousFrameNumbers ==
    /\ [](ContiguousFiles /\ OneWriterPerFile /\ DayRanges)
    /\ [][(AnimationSkipDay \/ CombinedSkipDay) =>
             /\ frame_count' = frame_count
             /\ files' = files
             /\ day_stats' = day_stats]_vars
    /\ [][(AnimationFinishDay \/ CombinedFinishDay) =>
             /\ frame_count' = start_frame + frames_per_date[date_index]
             /\ written_of(date_index) = 0..(frames_per_date[date_index] - 1)]_vars

\* a render is over in which a date without frames lies between two dates
\* with frames
C27_Witness ==
    /\ RenderDone
    /\ Len(day_stats) >= 2
    /\ Cardinality(DOMAIN files) >= 3
    /\ \E d \in DOMAIN frames_per_date :
          /\ frames_per_date[d] = 0
          /\ \E a, b \in DOMAIN day_stats :
                day_stats[a].date < d /\ d < day_stats[b].date

\* two threads are about to write frames of the date after a skipped date,
\* the later frame taken first
ThreadsInterleaved ==
    /\ InRenderAllFrames
    /\ date_index > 1
    /\ frames_per_date[date_index - 1] = 0
    /\ \E v, w \in Workers :
          /\ v < w
          /\ workers[v].at = "save_image"
          /\ workers[w].at = "completed"
          /\ workers[v].i < workers[w].i

\* ---- C28 ----
\* the sensors of the frame f in list order: place and, in process_day, name
SensorsListed(f) ==
    [j \in DOMAIN f.sensors |->
        <<f.sensors[j].lon, f.sensors[j].lat,
          IF pc = "process_day_done" THEN f.sensors[j].sensor_id ELSE "">>]

\* C28: all frames that one call of process_day or process_day_enhanced
\* returns list the same sensors in the same order at the same coordinates;
\* when a sensor is eligible there is one frame for every point of the
\* output grid; the timestamps grow strictly along the list.
C28_SameSensorsEveryFrame ==
    DayDone =>
        /\ \A i, k \in DOMAIN frames : SensorsListed(frames[i]) = SensorsListed(frames[k])
        /\ SensorsWithThree(KeptRows) # {} => Len(frames) = Len(frame_times)
        /\ \A i, k \in DOMAIN frames :
              i < k => frames[i].timestamp < frames[k].timestamp

\* a call returned three frames or more that list two sensors
C28_Witness ==
    /\ DayDone
    /\ Len(frames) >= 3
    /\ Len(frames) = Len(frame_times)
    /\ SensorsWithThree(KeptRows) = {"A", "B"}
    /\ Len(frames[1].sensors) = 2

\* ---- C30 ----
\* no row of the target date has u, v and speed
NoCompleteWind ==
    \A j \in DOMAIN df :
       df[j].timestamp \div TicksPerDay = 0 => df[j].wind.isna

EnhancedCalled == pc \in {"process_day_enhanced_done", "process_day_enhanced_raised"}

\* the frame f carries no wind: calm, no alignment, no sensor upwind
WithoutWind(f) ==
    /\ f.wind_u = 0
    /\ f.wind_v = 0
    /\ f.wind_speed = 0
    /\ f.transport_indicator = "calm"
    /\ f.wind_pollution_alignment = 0
    /\ \A j \in DOMAIN f.sensors : f.sensors[j].upwindness = <<0, 1>>

====
